---------------------------- MODULE Spec2Model ----------------------------
(***************************************************************************)
(* The expression parser of golem-worker-bridge                            *)
(* (src/golem-worker-bridge/src/parser/expr_parser.rs), and the caching    *)
(* gRPC client of golem-common (src/golem-common/src/client.rs), each with *)
(* a specification of its own: Spec and ClientSpec.  MultiSpec runs one    *)
(* GrpcClient call beside the calls on a MultiTargetGrpcClient, and        *)
(* AppSpec is the start-up of the worker service                           *)
(* (src/golem-worker-service/src/main.rs).                                 *)
(*                                                                         *)
(* A string is a sequence of one-character strings.  parse() tokenises the *)
(* input and runs the recursive driver go(cursor, context, prev).  The     *)
(* recursion of go through capture_expr_between is a call stack: a frame   *)
(* holds one activation's cursor, context and prev_expression; a sub-parse *)
(* pushes a frame, and the activation that finds its cursor exhausted      *)
(* returns to the frame below it.                                          *)
(*                                                                         *)
(* The tokeniser, the token cursor and Token's projections are not among   *)
(* the files under src/: they are modelled from the specification's words, *)
(* and from what the tests of expr_parser.rs require of them.              *)
(***************************************************************************)
EXTENDS Integers, Sequences, FiniteSets, TLC

\* parse(): the input, the call stack of go and what parse returned.
VARIABLES input, stack, result

\* GrpcClient (src/golem-common/src/client.rs): the cached connection, the
\* number of connections made so far, whether the endpoint can be built, and
\* the calls in progress.
VARIABLES client, connections, endpointOk, calls

\* MultiTargetGrpcClient: the map of cached connections and the calls in
\* progress; what the user function returns at each attempt, and what the
\* retry configuration answers after each number of started attempts.
VARIABLES clients, multi, outcomes, retryConfig

\* main.rs: where app() stands, and the three server tasks.
VARIABLES app

parserVars == <<input, stack, result>>
multiVars == <<clients, multi, outcomes, retryConfig>>

vars ==
    <<input, stack, result, client, connections, endpointOk, calls,
      clients, multi, outcomes, retryConfig, app>>

(***************************************************************************)
(* Strings                                                                 *)
(***************************************************************************)
RECURSIVE Flatten(_)
Flatten(ss) == IF ss = <<>> THEN <<>> ELSE Head(ss) \o Flatten(Tail(ss))

IsPrefixAt(w, s, i) ==
    /\ i + Len(w) - 1 <= Len(s)
    /\ \A k \in 1..Len(w) : s[i + k - 1] = w[k]

kwIf == <<"i", "f">>
kwThen == <<"t", "h", "e", "n">>
kwElse == <<"e", "l", "s", "e">>
kwRequest == <<"r", "e", "q", "u", "e", "s", "t">>
kwWorkerResponse ==
    <<"w", "o", "r", "k", "e", "r", ".", "r", "e", "s", "p", "o", "n", "s", "e">>

(***************************************************************************)
(* Token: kind is the enum variant, text the payload of RawString.         *)
(***************************************************************************)
Tok(k) == [kind |-> k, text |-> <<>>]
RawString(s) == [kind |-> "RawString", text |-> s]

\* Display for Token: the surface text.
TokenToString(t) ==
    CASE t.kind = "RawString" -> t.text
      [] t.kind = "Request" -> kwRequest
      [] t.kind = "WorkerResponse" -> kwWorkerResponse
      [] t.kind = "InterpolationStart" -> <<"$", "{">>
      [] t.kind = "OpenParen" -> <<"(">>
      [] t.kind = "CloseParen" -> <<")">>
      [] t.kind = "OpenSquareBracket" -> <<"[">>
      [] t.kind = "ClosedSquareBracket" -> <<"]">>
      [] t.kind = "ClosedCurlyBrace" -> <<"}">>
      [] t.kind = "Dot" -> <<".">>
      [] t.kind = "If" -> kwIf
      [] t.kind = "Then" -> kwThen
      [] t.kind = "Else" -> kwElse
      [] t.kind = "EqualTo" -> <<"=", "=">>
      [] t.kind = "GreaterThan" -> <<">">>
      [] t.kind = "LessThan" -> <<"<">>
      [] t.kind = "GreaterThanOrEqualTo" -> <<">", "=">>
      [] t.kind = "LessThanOrEqualTo" -> <<"<", "=">>
      [] t.kind = "Space" -> <<" ">>
      [] t.kind = "NewLine" -> <<"\n">>

\* Token::as_raw_string_token: the projection go applies in literal mode.
\* `${` keeps its meaning; so does `}`, which a capture leaves in the stream
\* (expr_parser_with_vars expects no Literal("}") after an interpolation).
AsRawStringToken(t) ==
    IF t.kind \in {"InterpolationStart", "ClosedCurlyBrace"}
    THEN t
    ELSE RawString(TokenToString(t))

(***************************************************************************)
(* Tokenizer::run: a left-to-right scan, total.                            *)
(***************************************************************************)
\* Only `${` is matched as two characters.
MultiCharTokensStartOnly ==
    << <<"InterpolationStart", <<"$", "{">> >> >>

MultiCharTokens ==
    << <<"InterpolationStart", <<"$", "{">> >>,
       <<"GreaterThanOrEqualTo", <<">", "=">> >>,
       <<"LessThanOrEqualTo", <<"<", "=">> >>,
       <<"EqualTo", <<"=", "=">> >> >>

\* worker.response before request: no keyword is a prefix of another.
Keywords ==
    << <<"WorkerResponse", kwWorkerResponse>>,
       <<"Request", kwRequest>>,
       <<"If", kwIf>>,
       <<"Then", kwThen>>,
       <<"Else", kwElse>> >>

SingleCharKind(c) ==
    CASE c = "}" -> "ClosedCurlyBrace"
      [] c = "(" -> "OpenParen"
      [] c = ")" -> "CloseParen"
      [] c = "[" -> "OpenSquareBracket"
      [] c = "]" -> "ClosedSquareBracket"
      [] c = "." -> "Dot"
      [] c = ">" -> "GreaterThan"
      [] c = "<" -> "LessThan"
      [] c = " " -> "Space"
      [] c = "\n" -> "NewLine"
      [] OTHER -> "None"

\* The index in a table of the first entry whose text starts at s[i]; 0 if none.
FirstMatch(table, s, i) ==
    LET hits == {j \in 1..Len(table) : IsPrefixAt(table[j][2], s, i)}
    IN  IF hits = {} THEN 0 ELSE CHOOSE j \in hits : \A h \in hits : j <= h

\* Whether a token (punctuation or whitespace) starts at s[i], or s ends there.
IsBoundaryAt(s, i) ==
    \/ i > Len(s)
    \/ SingleCharKind(s[i]) # "None"
    \/ FirstMatch(MultiCharTokens, s, i) # 0

\* A keyword matches on whole-word boundaries only: no raw text runs into it
\* (acc is empty) and a boundary follows it.
KeywordAt(s, i, acc) ==
    LET hits == {j \in 1..Len(Keywords) :
                    /\ IsPrefixAt(Keywords[j][2], s, i)
                    /\ IsBoundaryAt(s, i + Len(Keywords[j][2]))}
    IN  IF acc # <<>> \/ hits = {} THEN 0
        ELSE CHOOSE j \in hits : \A h \in hits : j <= h

FlushRaw(acc) == IF acc = <<>> THEN <<>> ELSE <<RawString(acc)>>

RECURSIVE Scan(_, _, _)
Scan(s, i, acc) ==
    IF i > Len(s) THEN FlushRaw(acc)
    ELSE LET m == FirstMatch(MultiCharTokens, s, i)
             k == KeywordAt(s, i, acc)
             c == SingleCharKind(s[i])
         IN  IF m # 0
             THEN FlushRaw(acc) \o <<Tok(MultiCharTokens[m][1])>>
                    \o Scan(s, i + 2, <<>>)
             ELSE IF k # 0
             THEN <<Tok(Keywords[k][1])>>
                    \o Scan(s, i + Len(Keywords[k][2]), <<>>)
             ELSE IF c # "None"
             THEN FlushRaw(acc) \o <<Tok(c)>> \o Scan(s, i + 1, <<>>)
             ELSE Scan(s, i + 1, Append(acc, s[i]))

Tokenise(s) == Scan(s, 1, <<>>)


(***************************************************************************)
(* TokenCursor.  A cursor is the token sequence and the number of tokens   *)
(* already delivered; no operation ever lowers that number.                *)
(***************************************************************************)
IsEmptyToken(t) == t.kind \in {"Space", "NewLine"}

\* next_non_empty_token: the index of the next token that is neither Space
\* nor NewLine, 0 when there is none.
NextNonEmptyIndex(toks, idx) ==
    LET rest == {j \in (idx + 1)..Len(toks) : ~IsEmptyToken(toks[j])}
    IN  IF rest = {} THEN 0 ELSE CHOOSE j \in rest : \A h \in rest : j <= h

\* The index of the `close` that matches an `open` consumed just before
\* idx + 1: the depth rises on each further `open` and falls on each `close`.
\* Tokens are compared by kind.  0 when the sequence ends first.
RECURSIVE MatchingClose(_, _, _, _, _)
MatchingClose(toks, j, open, close, depth) ==
    IF j > Len(toks) THEN 0
    ELSE IF toks[j].kind = close
         THEN IF depth = 1 THEN j
              ELSE MatchingClose(toks, j + 1, open, close, depth - 1)
    ELSE IF toks[j].kind = open
         THEN MatchingClose(toks, j + 1, open, close, depth + 1)
    ELSE MatchingClose(toks, j + 1, open, close, depth)

TextOfTokens(toks, from, to) ==
    Flatten([j \in 1..(to - from + 1) |-> TokenToString(toks[from + j - 1])])

\* capture_string_between: none, or the surface text strictly between the
\* open token just consumed and its matching close.  The cursor is left at
\* the closing token, which is the next token delivered: go's Then and Else
\* handlers receive the `then` and the `else` that closed the previous
\* capture (test_if_else_with_path_variable_in_predicate_and_left), and its
\* handlers for `}`, `)` and `]` pass over the others.
CaptureStringBetween(toks, idx, open, close) ==
    LET e == MatchingClose(toks, idx + 1, open, close, 1)
    IN  IF e = 0
        THEN [some |-> FALSE, text |-> <<>>, idx |-> idx]
        ELSE [some |-> TRUE, text |-> TextOfTokens(toks, idx + 1, e - 1),
              idx |-> e - 1]

\* capture_tail: the surface text of all remaining tokens; drains the cursor.
CaptureTail(toks, idx) ==
    [some |-> TRUE, text |-> TextOfTokens(toks, idx + 1, Len(toks)),
     idx |-> Len(toks)]

(***************************************************************************)
(* Expr: a tuple whose first element is the variant.                       *)
(***************************************************************************)
Literal(s) == <<"Literal", s>>
Request == <<"Request">>
WorkerResponse == <<"WorkerResponse">>
SelectField(e, f) == <<"SelectField", e, f>>
SelectIndex(e, n) == <<"SelectIndex", e, n>>
Binary(ctor, l, r) == <<ctor, l, r>>
Cond(p, t, e) == <<"Cond", p, t, e>>
Concat(es) == <<"Concat", es>>

ComparisonCtors ==
    {"EqualTo", "GreaterThan", "GreaterThanOrEqualTo", "LessThan",
     "LessThanOrEqualTo"}

(***************************************************************************)
(* InternalExprResult.  The boxed closure of InComplete is the data it     *)
(* closes over: the constructor it will build and the operands captured so *)
(* far.                                                                    *)
(***************************************************************************)
Empty == [kind |-> "Empty", scope |-> "", ctor |-> "", args |-> <<>>]
Complete(e) == [kind |-> "Complete", scope |-> "", ctor |-> "", args |-> <<e>>]
InComplete(scope, ctor, args) ==
    [kind |-> "InComplete", scope |-> scope, ctor |-> ctor, args |-> args]

IsEmpty(p) == p.kind = "Empty"

\* The closures: the three nested closures of Token::If (lines 336-359) and
\* the closure of build_with_last_complete_expr (line 466).
\* ApplyClosure with the second closure of Token::If building the Cond.
ApplyClosureTwoOperands(p, expr) ==
    IF p.ctor = "Cond"
    THEN IF Len(p.args) < 1
         THEN InComplete("Condition", "Cond", Append(p.args, expr))
         ELSE Complete(Cond(p.args[1], expr, expr))
    ELSE Complete(Binary(p.ctor, p.args[1], expr))

ApplyClosure(p, expr) ==
    IF p.ctor = "Cond"
    THEN IF Len(p.args) < 2
         THEN InComplete("Condition", "Cond", Append(p.args, expr))
         ELSE Complete(Cond(p.args[1], p.args[2], expr))
    ELSE Complete(Binary(p.ctor, p.args[1], expr))

\* continue_build joining a Complete state and the new expression in the
\* opposite order.
ContinueBuildNewFirst(p, expr) ==
    CASE p.kind = "Complete" -> Complete(Concat(<<expr, p.args[1]>>))
      [] p.kind = "InComplete" -> ApplyClosure(p, expr)
      [] p.kind = "Empty" -> Complete(expr)


\* continue_build adding the new expression to the children of a Concat.
ContinueBuildFlattening(p, expr) ==
    CASE p.kind = "Complete" ->
           IF p.args[1][1] = "Concat"
           THEN Complete(Concat(Append(p.args[1][2], expr)))
           ELSE Complete(Concat(<<p.args[1], expr>>))
      [] p.kind = "InComplete" -> ApplyClosure(p, expr)
      [] p.kind = "Empty" -> Complete(expr)

ContinueBuild(p, expr) ==
    CASE p.kind = "Complete" -> Complete(Concat(<<p.args[1], expr>>))
      [] p.kind = "InComplete" -> ApplyClosure(p, expr)
      [] p.kind = "Empty" -> Complete(expr)

(***************************************************************************)
(* ParseError::Message: the message and what is formatted into it.         *)
(***************************************************************************)
Ok(e) == [kind |-> "Ok", val |-> e]
Err(msg, arg) == [kind |-> "Err", val |-> <<msg, arg>>]
NoResult == [kind |-> "None", val |-> <<>>]

(***************************************************************************)
(* The driver.  A configuration is the call stack of go and the result of  *)
(* parse; the frame on top is the activation that runs.                    *)
(***************************************************************************)
Frame(toks, idx, ctx, prev) ==
    [toks |-> toks, idx |-> idx, ctx |-> ctx, prev |-> prev]

Conf(stk, res) == [stack |-> stk, result |-> res]

Top(c) == c.stack[Len(c.stack)]

\* Acquisition that leaves out as_raw_string_token in literal mode.
AcquireUnprojected(f) ==
    IF f.ctx = "Code"
    THEN LET j == NextNonEmptyIndex(f.toks, f.idx)
         IN  IF j = 0
             THEN [some |-> FALSE, tok |-> Tok("None"), idx |-> Len(f.toks)]
             ELSE [some |-> TRUE, tok |-> f.toks[j], idx |-> j]
    ELSE IF f.idx < Len(f.toks)
         THEN [some |-> TRUE, tok |-> f.toks[f.idx + 1], idx |-> f.idx + 1]
         ELSE [some |-> FALSE, tok |-> Tok("None"), idx |-> f.idx]


\* Lines 104-108: the token this activation reads next and the cursor after
\* reading it.
Acquire(f) ==
    IF f.ctx = "Code"
    THEN LET j == NextNonEmptyIndex(f.toks, f.idx)
         IN  IF j = 0
             THEN [some |-> FALSE, tok |-> Tok("None"), idx |-> Len(f.toks)]
             ELSE [some |-> TRUE, tok |-> f.toks[j], idx |-> j]
    ELSE IF f.idx < Len(f.toks)
         THEN [some |-> TRUE, tok |-> AsRawStringToken(f.toks[f.idx + 1]),
               idx |-> f.idx + 1]
         ELSE [some |-> FALSE, tok |-> Tok("None"), idx |-> f.idx]

\* An Err leaves every activation through `?`: parse returns it.
Fail(msg, arg) == Conf(<<>>, Err(msg, arg))

\* go(cursor, context, prev): the tail call that goes on in the same frame.
Go(c, idx, prev) ==
    LET f == Top(c)
    IN  Conf([c.stack EXCEPT ![Len(c.stack)] =
                 Frame(f.toks, idx, f.ctx, prev)],
             c.result)

(***************************************************************************)
(* str::trim and str::parse::<usize> (line 308) on the strings of the      *)
(* model, which are far too short to overflow a usize.                     *)
(***************************************************************************)
IsWhitespace(ch) == ch \in {" ", "\n"}

RECURSIVE TrimStart(_)
TrimStart(s) ==
    IF s # <<>> /\ IsWhitespace(Head(s)) THEN TrimStart(Tail(s)) ELSE s

RECURSIVE TrimEnd(_)
TrimEnd(s) ==
    IF s # <<>> /\ IsWhitespace(s[Len(s)])
    THEN TrimEnd(SubSeq(s, 1, Len(s) - 1))
    ELSE s

Trim(s) == TrimEnd(TrimStart(s))

DigitValue(ch) ==
    CASE ch = "0" -> 0 [] ch = "1" -> 1 [] ch = "2" -> 2 [] ch = "3" -> 3
      [] ch = "4" -> 4 [] ch = "5" -> 5 [] ch = "6" -> 6 [] ch = "7" -> 7
      [] ch = "8" -> 8 [] ch = "9" -> 9 [] OTHER -> -1

RECURSIVE DecimalValue(_)
DecimalValue(ds) ==
    IF ds = <<>> THEN 0
    ELSE 10 * DecimalValue(SubSeq(ds, 1, Len(ds) - 1)) + DigitValue(ds[Len(ds)])

\* An optional `+`, then one digit or more.
ParseUsize(s) ==
    LET ds == IF s # <<>> /\ Head(s) = "+" THEN Tail(s) ELSE s
    IN  IF ds # <<>> /\ \A k \in 1..Len(ds) : DigitValue(ds[k]) >= 0
        THEN [ok |-> TRUE, val |-> DecimalValue(ds)]
        ELSE [ok |-> FALSE, val |-> 0]

(***************************************************************************)
(* capture_expr_between (lines 424-452).  The captured text is tokenised   *)
(* again and parsed by a new activation of go in Code from Empty (line     *)
(* 443); prev waits in the caller's frame for the inner expression, which  *)
(* the return of that activation feeds to continue_build (line 445).       *)
(* until = "None" is capture_until = None.                                 *)
(***************************************************************************)
\* capture_expr_between taking what is left of the stream when the closing
\* token is missing.
CaptureExprBetweenOrTail(c, idx, from, until, prev) ==
    LET f == Top(c)
        between == CaptureStringBetween(f.toks, idx, from, until)
        cap == IF until = "None" \/ ~between.some
               THEN CaptureTail(f.toks, idx)
               ELSE between
    IN  Conf(Append([c.stack EXCEPT ![Len(c.stack)] =
                        Frame(f.toks, cap.idx, f.ctx, prev)],
                    Frame(Tokenise(cap.text), 0, "Code", Empty)),
             c.result)


\* capture_expr_between reading the captured text without moving the cursor
\* over it.
CaptureExprBetweenInPlace(c, idx, from, until, prev) ==
    LET f == Top(c)
        cap == IF until = "None"
               THEN CaptureTail(f.toks, idx)
               ELSE CaptureStringBetween(f.toks, idx, from, until)
    IN  IF cap.some
        THEN Conf(Append([c.stack EXCEPT ![Len(c.stack)] =
                             Frame(f.toks, idx, f.ctx, prev)],
                         Frame(Tokenise(cap.text), 0, "Code", Empty)),
                  c.result)
        ELSE Fail("Unable to find a matching closing symbol", <<until, from>>)


\* capture_expr_between parsing the captured text in the caller's context.
CaptureExprBetweenInContext(c, idx, from, until, prev) ==
    LET f == Top(c)
        cap == IF until = "None"
               THEN CaptureTail(f.toks, idx)
               ELSE CaptureStringBetween(f.toks, idx, from, until)
    IN  IF cap.some
        THEN Conf(Append([c.stack EXCEPT ![Len(c.stack)] =
                             Frame(f.toks, cap.idx, f.ctx, prev)],
                         Frame(Tokenise(cap.text), 0, f.ctx, Empty)),
                  c.result)
        ELSE Fail("Unable to find a matching closing symbol", <<until, from>>)

CaptureExprBetween(c, idx, from, until, prev) ==
    LET f == Top(c)
        cap == IF until = "None"
               THEN CaptureTail(f.toks, idx)
               ELSE CaptureStringBetween(f.toks, idx, from, until)
    IN  IF cap.some
        THEN Conf(Append([c.stack EXCEPT ![Len(c.stack)] =
                             Frame(f.toks, cap.idx, f.ctx, prev)],
                         Frame(Tokenise(cap.text), 0, "Code", Empty)),
                  c.result)
        ELSE Fail("Unable to find a matching closing symbol", <<until, from>>)

\* build_with_last_complete_expr taking the operand of a pending builder as
\* the left side.
BuildWithAnyLastExpr(scope, last, ctor) ==
    CASE last.kind \in {"Complete", "InComplete"} /\ last.args # <<>> ->
           [ok |-> TRUE, val |-> InComplete(scope, ctor, <<last.args[1]>>),
            err |-> ""]
      [] last.kind = "InComplete" ->
           [ok |-> FALSE, val |-> Empty,
            err |-> "Cannot apply greater than on top of an incomplete expression"]
      [] last.kind = "Empty" ->
           [ok |-> FALSE, val |-> Empty,
            err |-> "Cannot apply greater than on an empty expression"]

\* build_with_last_complete_expr refusing a comparison as the left side.
BuildWithLastUncomparedExpr(scope, last, ctor) ==
    CASE last.kind = "Complete" /\ last.args[1][1] \notin ComparisonCtors ->
           [ok |-> TRUE, val |-> InComplete(scope, ctor, <<last.args[1]>>),
            err |-> ""]
      [] last.kind \in {"Complete", "InComplete"} ->
           [ok |-> FALSE, val |-> Empty,
            err |-> "Cannot apply greater than on top of an incomplete expression"]
      [] last.kind = "Empty" ->
           [ok |-> FALSE, val |-> Empty,
            err |-> "Cannot apply greater than on an empty expression"]

\* build_with_last_complete_expr (lines 455-480); ctor stands for the
\* closure complete_expression.
BuildWithLastCompleteExpr(scope, last, ctor) ==
    CASE last.kind = "Complete" ->
           [ok |-> TRUE, val |-> InComplete(scope, ctor, <<last.args[1]>>),
            err |-> ""]
      [] last.kind = "InComplete" ->
           [ok |-> FALSE, val |-> Empty,
            err |-> "Cannot apply greater than on top of an incomplete expression"]
      [] last.kind = "Empty" ->
           [ok |-> FALSE, val |-> Empty,
            err |-> "Cannot apply greater than on an empty expression"]

(***************************************************************************)
(* The arms of go's match on the token (lines 110-404).  a is what Acquire *)
(* delivered to the running activation.                                    *)
(***************************************************************************)
\* The RawString arm starting over from the new literal, without
\* continue_build.
OnRawStringAlone(c) ==
    LET a == Acquire(Top(c))
    IN  Go(c, a.idx, Complete(Literal(a.tok.text)))


OnRawString(c) ==
    LET a == Acquire(Top(c))
    IN  Go(c, a.idx, ContinueBuild(Top(c).prev, Literal(a.tok.text)))

OnRequest(c) ==
    LET a == Acquire(Top(c))
    IN  Go(c, a.idx, ContinueBuild(Top(c).prev, Request))

OnWorkerResponse(c) ==
    LET a == Acquire(Top(c))
    IN  Go(c, a.idx, ContinueBuild(Top(c).prev, WorkerResponse))

OnInterpolationStart(c) ==
    LET a == Acquire(Top(c))
    IN  CaptureExprBetween(c, a.idx, "InterpolationStart", "ClosedCurlyBrace",
                           Top(c).prev)

\* OnOpenParen passing over the bracket, so that what it encloses is read at
\* the level around it.
OnOpenParenPassedOver(c) ==
    LET a == Acquire(Top(c))
    IN  Go(c, a.idx, Top(c).prev)


OnOpenParen(c) ==
    LET a == Acquire(Top(c))
    IN  CaptureExprBetween(c, a.idx, "OpenParen", "CloseParen", Top(c).prev)

\* The shape the five comparison arms share.
OnComparison(c, scope, ctor, emptyMsg) ==
    LET a == Acquire(Top(c))
        b == BuildWithLastCompleteExpr(scope, Top(c).prev, ctor)
    IN  IF IsEmpty(Top(c).prev) THEN Fail(emptyMsg, <<>>)
        ELSE IF b.ok THEN Go(c, a.idx, b.val)
        ELSE Fail(b.err, <<>>)

OnGreaterThanOrEqualTo(c) ==
    OnComparison(c, "GreaterThanOrEqualTo", "GreaterThanOrEqualTo",
        "GreaterThanOrEqualTo (>=) is applied to a non existing left expression")

OnGreaterThan(c) ==
    OnComparison(c, "GreaterThan", "GreaterThan",
        "GreaterThan (>) is applied to a non existing left expression")

OnLessThan(c) ==
    OnComparison(c, "LessThan", "LessThan",
        "LessThan (<) is applied to a non existing left expression")

\* OnLessThanOrEqualTo building the node of the arm above it.
OnLessThanOrEqualToAsLessThan(c) ==
    OnComparison(c, "LessThanOrEqualTo", "LessThan",
        "LessThanOrEqualTo (<=)  is applied to a non existing left expression")

OnLessThanOrEqualTo(c) ==
    OnComparison(c, "LessThanOrEqualTo", "LessThanOrEqualTo",
        "LessThanOrEqualTo (<=)  is applied to a non existing left expression")

OnEqualTo(c) ==
    OnComparison(c, "EqualTo", "EqualTo",
        "EqualTo (=) is applied to a non existing left expression")

\* OnDot with the field taken as a further operand of the expression.
OnDotAsOperand(c) ==
    LET f == Top(c)
        a == Acquire(f)
        j == NextNonEmptyIndex(f.toks, a.idx)
    IN  IF j = 0 THEN Fail("Expecting a field after dot", <<>>)
        ELSE IF f.toks[j].kind # "RawString"
        THEN Fail("Expecting a valid field selection after dot instead of {}.",
                  TokenToString(f.toks[j]))
        ELSE IF f.prev.kind = "Complete"
        THEN Go(c, j, ContinueBuild(f.prev, Literal(f.toks[j].text)))
        ELSE Fail("Invalid token field {}. Make sure expression format is correct",
                  f.toks[j].text)

\* OnDot taking the text of whatever token follows as the field.
OnDotOfAnyToken(c) ==
    LET f == Top(c)
        a == Acquire(f)
        j == NextNonEmptyIndex(f.toks, a.idx)
    IN  IF j = 0 THEN Fail("Expecting a field after dot", <<>>)
        ELSE IF f.prev.kind = "Complete"
        THEN Go(c, j, Complete(SelectField(f.prev.args[1],
                                           TokenToString(f.toks[j]))))
        ELSE Fail("Invalid token field {}. Make sure expression format is correct",
                  TokenToString(f.toks[j]))


\* OnDot looking for the field in the very next token, whitespace included.
OnDotOfNextToken(c) ==
    LET f == Top(c)
        a == Acquire(f)
        j == IF a.idx < Len(f.toks) THEN a.idx + 1 ELSE 0
    IN  IF j = 0 THEN Fail("Expecting a field after dot", <<>>)
        ELSE IF f.toks[j].kind # "RawString"
        THEN Fail("Expecting a valid field selection after dot instead of {}.",
                  TokenToString(f.toks[j]))
        ELSE IF f.prev.kind = "Complete"
        THEN Go(c, j, Complete(SelectField(f.prev.args[1], f.toks[j].text)))
        ELSE Fail("Invalid token field {}. Make sure expression format is correct",
                  f.toks[j].text)


OnDot(c) ==
    LET f == Top(c)
        a == Acquire(f)
        j == NextNonEmptyIndex(f.toks, a.idx)
    IN  IF j = 0 THEN Fail("Expecting a field after dot", <<>>)
        ELSE IF f.toks[j].kind # "RawString"
        THEN Fail("Expecting a valid field selection after dot instead of {}.",
                  TokenToString(f.toks[j]))
        ELSE IF f.prev.kind = "Complete"
        THEN Go(c, j, Complete(SelectField(f.prev.args[1], f.toks[j].text)))
        ELSE Fail("Invalid token field {}. Make sure expression format is correct",
                  f.toks[j].text)

\* OnOpenSquareBracket parsing the captured text as it stands, untrimmed.
OnOpenSquareBracketUntrimmed(c) ==
    LET f == Top(c)
        a == Acquire(f)
        cap == CaptureStringBetween(f.toks, a.idx, "OpenSquareBracket",
                                    "ClosedSquareBracket")
        n == ParseUsize(cap.text)
    IN  IF f.prev.kind # "Complete" THEN Fail("Invalid token [", <<>>)
        ELSE IF ~cap.some
        THEN Fail("Expecting a valid index inside square brackets near to field",
                  <<>>)
        ELSE IF n.ok
        THEN Go(c, cap.idx, Complete(SelectIndex(f.prev.args[1], n.val)))
        ELSE Fail("Invalid index {} obtained within square brackets", cap.text)


OnOpenSquareBracket(c) ==
    LET f == Top(c)
        a == Acquire(f)
        cap == CaptureStringBetween(f.toks, a.idx, "OpenSquareBracket",
                                    "ClosedSquareBracket")
        n == ParseUsize(Trim(cap.text))
    IN  IF f.prev.kind # "Complete" THEN Fail("Invalid token [", <<>>)
        ELSE IF ~cap.some
        THEN Fail("Expecting a valid index inside square brackets near to field",
                  <<>>)
        ELSE IF n.ok
        THEN Go(c, cap.idx, Complete(SelectIndex(f.prev.args[1], n.val)))
        ELSE Fail("Invalid index {} obtained within square brackets", cap.text)

\* OnIf with the predicate ending at the first `then`, whatever its depth.
OnIfToFirstThen(c) ==
    LET a == Acquire(Top(c))
    IN  CaptureExprBetween(c, a.idx, "None", "Then",
                           InComplete("Condition", "Cond", <<>>))


\* The previous expression is dropped: the new builder replaces it.
OnIf(c) ==
    LET a == Acquire(Top(c))
    IN  CaptureExprBetween(c, a.idx, "If", "Then",
                           InComplete("Condition", "Cond", <<>>))

IsPendingCondition(p) == p.kind = "InComplete" /\ p.scope = "Condition"

\* OnThen with the then-branch running to the end of the stream.
OnThenToTheEnd(c) ==
    LET a == Acquire(Top(c))
    IN  IF IsPendingCondition(Top(c).prev)
        THEN CaptureExprBetween(c, a.idx, "Then", "None", Top(c).prev)
        ELSE Fail("then is a keyword and should be part of a if else condition logic",
                  <<>>)

\* OnThen feeding its region to a new builder, as OnIf feeds the predicate.
OnThenAsPredicate(c) ==
    LET a == Acquire(Top(c))
    IN  IF IsPendingCondition(Top(c).prev)
        THEN CaptureExprBetween(c, a.idx, "Then", "Else",
                                InComplete("Condition", "Cond", <<>>))
        ELSE Fail("then is a keyword and should be part of a if else condition logic",
                  <<>>)

OnThen(c) ==
    LET a == Acquire(Top(c))
    IN  IF IsPendingCondition(Top(c).prev)
        THEN CaptureExprBetween(c, a.idx, "Then", "Else", Top(c).prev)
        ELSE Fail("then is a keyword and should be part of a if else condition logic",
                  <<>>)

\* OnElse with the else-branch closed by a further `else`, as a then-branch is.
OnElseUntilElse(c) ==
    LET a == Acquire(Top(c))
    IN  IF IsPendingCondition(Top(c).prev)
        THEN CaptureExprBetween(c, a.idx, "Else", "Else", Top(c).prev)
        ELSE Fail("else is a keyword and should be part of a if else condition logic",
                  <<>>)

\* OnElse taking any pending builder for a conditional.
OnElseOfAnyBuilder(c) ==
    LET a == Acquire(Top(c))
    IN  IF Top(c).prev.kind = "InComplete"
        THEN CaptureExprBetween(c, a.idx, "Else", "None", Top(c).prev)
        ELSE Fail("else is a keyword and should be part of a if else condition logic",
                  <<>>)


\* OnElse feeding its region into the then-branch slot of the builder.
OnElseAsThenBranch(c) ==
    LET a == Acquire(Top(c))
        p == Top(c).prev
    IN  IF IsPendingCondition(p)
        THEN CaptureExprBetween(c, a.idx, "Else", "None",
                                InComplete("Condition", "Cond",
                                           SubSeq(p.args, 1, 1)))
        ELSE Fail("else is a keyword and should be part of a if else condition logic",
                  <<>>)

OnElse(c) ==
    LET a == Acquire(Top(c))
    IN  IF IsPendingCondition(Top(c).prev)
        THEN CaptureExprBetween(c, a.idx, "Else", "None", Top(c).prev)
        ELSE Fail("else is a keyword and should be part of a if else condition logic",
                  <<>>)

\* Lines 399-403.
PassedOver ==
    {"ClosedCurlyBrace", "ClosedSquareBracket", "CloseParen", "Space", "NewLine"}

\* The closing tokens and whitespace joined to prev as text.
OnPassedOverAsText(c) ==
    LET a == Acquire(Top(c))
    IN  Go(c, a.idx,
           ContinueBuild(Top(c).prev, Literal(TokenToString(a.tok))))

OnPassedOver(c) ==
    LET a == Acquire(Top(c))
    IN  Go(c, a.idx, Top(c).prev)

\* OnEnd with an Empty prev returned as the empty literal.
OnEndEmptyLiteral(c) ==
    LET f == Top(c)
        n == Len(c.stack)
        e == IF f.prev.kind = "Empty" THEN Literal(<<>>) ELSE f.prev.args[1]
    IN  IF f.prev.kind = "InComplete"
        THEN Fail("failed expression. Internal logical error", <<>>)
        ELSE IF n = 1 THEN Conf(<<>>, Ok(e))
        ELSE LET g == c.stack[n - 1]
             IN  Conf([SubSeq(c.stack, 1, n - 1) EXCEPT ![n - 1] =
                          Frame(g.toks, g.idx, g.ctx, ContinueBuild(g.prev, e))],
                      c.result)

\* OnEnd with an inner activation that ends without an expression returning
\* nothing to the level around it, which goes on.
OnEndOfFailedPart(c) ==
    LET f == Top(c)
        n == Len(c.stack)
    IN  IF n = 1
        THEN IF f.prev.kind # "Complete"
             THEN Fail("failed expression. Internal logical error", <<>>)
             ELSE Conf(<<>>, Ok(f.prev.args[1]))
        ELSE LET g == c.stack[n - 1]
             IN  Conf([SubSeq(c.stack, 1, n - 1) EXCEPT ![n - 1] =
                          Frame(g.toks, g.idx, g.ctx,
                                IF f.prev.kind = "Complete"
                                THEN ContinueBuild(g.prev, f.prev.args[1])
                                ELSE g.prev)],
                      c.result)


\* Lines 405-412, and where the value goes: the top-level activation returns
\* it from parse (lines 417-421); an inner one returns it to
\* capture_expr_between, which feeds it to the waiting prev (line 445) and
\* hands the result to the caller's next go.
OnEnd(c) ==
    LET f == Top(c)
        n == Len(c.stack)
    IN  IF f.prev.kind # "Complete"
        THEN Fail("failed expression. Internal logical error", <<>>)
        ELSE IF n = 1 THEN Conf(<<>>, Ok(f.prev.args[1]))
        ELSE LET g == c.stack[n - 1]
             IN  Conf([SubSeq(c.stack, 1, n - 1) EXCEPT ![n - 1] =
                          Frame(g.toks, g.idx, g.ctx,
                                ContinueBuild(g.prev, f.prev.args[1]))],
                      c.result)

(***************************************************************************)
(* One iteration of go in the running activation, and go run to its end.   *)
(***************************************************************************)
Step(c) ==
    LET a == Acquire(Top(c))
        k == a.tok.kind
    IN  IF ~a.some THEN OnEnd(c)
        ELSE CASE k = "RawString" -> OnRawString(c)
               [] k = "Request" -> OnRequest(c)
               [] k = "WorkerResponse" -> OnWorkerResponse(c)
               [] k = "InterpolationStart" -> OnInterpolationStart(c)
               [] k = "OpenParen" -> OnOpenParen(c)
               [] k = "GreaterThanOrEqualTo" -> OnGreaterThanOrEqualTo(c)
               [] k = "GreaterThan" -> OnGreaterThan(c)
               [] k = "LessThan" -> OnLessThan(c)
               [] k = "LessThanOrEqualTo" -> OnLessThanOrEqualTo(c)
               [] k = "EqualTo" -> OnEqualTo(c)
               [] k = "Dot" -> OnDot(c)
               [] k = "OpenSquareBracket" -> OnOpenSquareBracket(c)
               [] k = "If" -> OnIf(c)
               [] k = "Then" -> OnThen(c)
               [] k = "Else" -> OnElse(c)
               [] k \in PassedOver -> OnPassedOver(c)

RECURSIVE Run(_)
Run(c) == IF c.stack = <<>> THEN c ELSE Run(Step(c))

\* parse_tokens (lines 415-421): go in Literal from Empty.
InitialConf(toks) == Conf(<<Frame(toks, 0, "Literal", Empty)>>, NoResult)

\* ExprParser::parse (lines 29-33), as one function of the input.
Parse(s) == Run(InitialConf(Tokenise(s))).result

\* get_expr(&mut new_cursor, Context::Code, InternalExprResult::Empty) of line
\* 443, as one function of the captured text.
ParseCode(s) ==
    Run(Conf(<<Frame(Tokenise(s), 0, "Code", Empty)>>, NoResult)).result

(***************************************************************************)
(* The inputs.  An input is the concatenation of lexemes, tokenised from   *)
(* its characters.                                                         *)
(***************************************************************************)
MaxLit == 2
MaxBody == 2
MaxSel == 3
MaxDepth == 2

SeqsUpTo(S, n) == UNION {[1..k -> S] : k \in 0..n}

sp == <<" ">>
Interpolate(body) == <<"$", "{">> \o body \o <<"}">>
IfThenElse(p, t, e) ==
    kwIf \o sp \o p \o sp \o kwThen \o sp \o t \o sp \o kwElse \o sp \o e

ComparisonLexemes == {<<">">>, <<">", "=">>, <<"<">>, <<"<", "=">>, <<"=", "=">>}

\* Text outside every interpolation.
LitLexemes ==
    {<<"a">>, <<"u", "-", "i">>, <<"=">>, sp, <<"\n">>, kwIf, kwThen, kwElse,
     kwRequest, kwWorkerResponse, <<".">>, <<"(">>, <<")">>, <<"[">>, <<"]">>,
     <<"}">>, <<">">>, <<"=", "=">>}

LitInputs == {Flatten(ls) : ls \in SeqsUpTo(LitLexemes, MaxLit)}

\* Any short run of code lexemes inside one interpolation.
CodeLexemes ==
    {<<"a">>, <<"1">>, sp, kwIf, kwThen, kwElse, kwRequest, kwWorkerResponse,
     <<".">>, <<"(">>, <<")">>, <<"[">>, <<"]">>, <<"}">>, <<"$", "{">>}
      \cup ComparisonLexemes

CodeInputs == {Interpolate(Flatten(ls)) : ls \in SeqsUpTo(CodeLexemes, MaxBody)}

\* Operands: a literal, two operands in a row, selections, a comparison, a
\* bracketed comparison, an inner interpolation, nothing.
Fragments ==
    {<<"a">>, <<"a", " ", "1">>, kwRequest \o <<".", "p", ".", "u", "-", "i">>,
     kwWorkerResponse \o <<"[", "0", "]">>, <<"a", ">", "1">>,
     <<"(", "a", "=", "=", "1", ")">>, <<"$", "{", "a", "}">>, <<>>}

CondInputs ==
    {Interpolate(IfThenElse(p, t, e)) : p \in Fragments, t \in Fragments,
                                        e \in Fragments}

\* if .. then .. else if .. then .. else ..., to a depth.
Atoms == {<<"a">>, kwRequest \o <<".", "p">>}

RECURSIVE Chains(_)
Chains(d) ==
    IF d = 0 THEN Atoms
    ELSE {IfThenElse(p, t, e) : p \in Atoms, t \in Atoms, e \in Chains(d - 1)}

ChainInputs == {Interpolate(b) : b \in UNION {Chains(d) : d \in 1..MaxDepth}}

\* A root and a chain of selections.
Roots ==
    {kwRequest, kwWorkerResponse, <<"a">>, <<"a", " ", "b">>,
     <<"(", "a", ">", "1", ")">>, <<>>}

Selectors ==
    {<<".", "p">>, <<".", " ", "u", "-", "i">>, <<"[", "0", "]">>,
     <<"[", " ", "1", "2", " ", "]">>, <<"[", "a", "]">>, <<".">>, <<"[">>}

SelectInputs ==
    {Interpolate(r \o Flatten(ss)) : r \in Roots, ss \in SeqsUpTo(Selectors, MaxSel)}

\* A left side, a comparison, a right side.
Sides == {<<"a">>, <<"a", " ", "b">>, kwRequest \o <<".", "p">>,
          <<"(", "a", ">", "1", ")">>, <<"1", ">", " ">>, <<>>}

CompareInputs ==
    {Interpolate(l \o op \o r) : l \in Sides, op \in ComparisonLexemes,
                                 r \in Sides}

\* A comparison whose right side is a conditional.
CompareCondInputs ==
    {Interpolate(<<"a">> \o op \o sp \o IfThenElse(<<"a">>, <<"b">>, <<"c">>)) :
        op \in ComparisonLexemes}

\* Text before and after one interpolation.
Befores == {<<>>, <<"w", "-">>, <<"a", " ", "b">>, <<"}">>, kwRequest}
Bodies == {<<"a">>, kwRequest \o <<".", "p", ".", "u", "-", "i">>, <<"1", ">", "2">>,
           IfThenElse(<<"a">>, <<"b">>, <<"c">>), sp, <<"a", ">">>}
Afters == {<<>>, <<">", "2">>, sp \o kwIf, <<"$", "{", "b", "}">>}

MixedInputs ==
    {b \o Interpolate(m) \o a : b \in Befores, m \in Bodies, a \in Afters}

\* The literal of test_if_expr_but_as_literal.
PlainInputs == {IfThenElse(<<"h">>, <<"f">>, <<"b">>)}

\* A `then` or an `else` with no conditional waiting for it.
StrayLefts ==
    {<<>>, <<"a">>, <<"1", ">", " ">>, <<"(", "a", ">", "1", ")">>,
     <<"(">> \o IfThenElse(<<"a">>, <<"b">>, <<"c">>) \o <<")">>}

StrayInputs ==
    {Interpolate(l \o sp \o k \o r) :
        l \in StrayLefts, k \in {kwThen, kwElse}, r \in {<<>>, <<" ", "a">>}}

\* A dot, what comes before it and what comes after it.
DotLefts == {<<>>, <<"a">>, kwRequest, <<"a", ">">>}
DotGaps == {<<>>, sp, <<" ", "\n">>}
DotNexts ==
    {<<>>, <<"p">>, <<"1">>, kwRequest, kwWorkerResponse, kwIf, kwThen,
     <<".">>, <<"[">>, <<"(">>, <<")">>, <<">">>, <<"=", "=">>}

DotInputs ==
    {Interpolate(l \o <<".">> \o g \o n) :
        l \in DotLefts, g \in DotGaps, n \in DotNexts}

\* An index, what comes before it and what stands in it.
IndexLefts == {<<>>, <<"a">>, kwRequest, <<"a", ">">>, <<"a", " ">>}
IndexTexts ==
    {<<"[", "0", "]">>, <<"[", " ", "1", "2", " ", "]">>,
     <<"[", "\n", "7", "]">>, <<"[", "+", "1", "]">>, <<"[", "a", "]">>,
     <<"[", "]">>, <<"[", " ", "]">>, <<"[", "-", "1", "]">>,
     <<"[", "1", " ", "2", "]">>, <<"[", "1", ".", "5", "]">>,
     <<"[", "[", "0", "]", "]">>, <<"[">>, <<"[", "0">>, <<"[", "0", ")">>,
     <<"[", "[", "0", "]">>}

IndexInputs ==
    {Interpolate(l \o x) : l \in IndexLefts, x \in IndexTexts}


\* An opening token with no close to match it.  A `${` in code is closed by
\* the `}` that would close the region around it, which then needs a `}` of
\* its own.
OpenLefts == {<<>>, <<"a">>, <<"a", ">">>}
UnclosedParens ==
    {<<"(">>, <<"(", "a">>, <<"(", "a", "]">>, <<"(", "(", "a", ")">>}
UnclosedIfs ==
    {kwIf, kwIf \o <<" ", "a">>, kwIf \o <<" ", "a", " ">> \o kwElse \o <<" ", "b">>,
     kwIf \o sp \o kwIf \o <<" ", "a", " ">> \o kwThen \o <<" ", "b">>}
UnclosedThens == {kwIf \o <<" ", "a", " ">> \o kwThen \o <<" ", "b">>}
UnclosedRegions ==
    {<<"$", "{">>, <<"$", "{", "a">>, <<"$", "{", "a", ")">>,
     <<"$", "{", "$", "{", "a", "}">>}

UnmatchedInputs ==
    {Interpolate(l \o sp \o x) :
        l \in OpenLefts, x \in UnclosedParens \cup UnclosedIfs \cup UnclosedThens}
      \cup {Interpolate(<<"(">> \o l \o sp \o x \o <<")", "}">>) :
               l \in OpenLefts, x \in UnclosedRegions}
      \cup {b \o x : b \in Befores, x \in UnclosedRegions}


\* Parts that fail, each with an error of its own, in the places where a
\* part is parsed on its own; what follows them would fail in another way.
BadParts == {<<"a", " ", ">">>, <<".", "p">>, <<"[", "0", "]">>, <<">">>}
Parts == BadParts \cup {<<"a">>}
AbortAfters == {<<>>, <<">", "2">>, <<"$", "{", "a">>, <<"$", "{", ".", "}">>}

AbortInputs ==
    {b \o Interpolate(x) \o a :
        b \in {<<>>, <<"w", "-">>}, x \in BadParts, a \in AbortAfters}
      \cup {Interpolate(l \o <<"(">> \o x \o <<")">> \o r) :
               l \in {<<>>, <<"a", " ">>}, x \in BadParts,
               r \in {<<>>, sp \o kwThen, <<".">>}}
      \cup {Interpolate(IfThenElse(x, y, z)) : x \in Parts, y \in Parts, z \in Parts}


\* A conditional whose predicate holds a whole conditional in brackets.
Inner(x) == <<"(">> \o IfThenElse(x, <<"1">>, <<"0">>) \o <<")">>

NestedPredicates(x) ==
    {Inner(x), Inner(x) \o <<" ", ">", " ", "0">>,
     <<"(">> \o Inner(x) \o <<" ", ">", " ", "0", ")">>,
     <<"0", " ", "<", " ">> \o Inner(x)}

NestedInputs ==
    {b \o Interpolate(IfThenElse(p, t, <<"0">>)) :
        b \in {<<>>, <<"f", "-">>},
        p \in UNION {NestedPredicates(x) : x \in Atoms},
        t \in {<<"y", ".", "z">>, Inner(<<"a">>)}}


\* Bracketed parts and regions in code, as the sides of a comparison and as
\* the predicate of a conditional.
Units ==
    {<<"(", "a", ">", "b", ")">>, <<"(", "c", " ", "d", ")">>,
     <<"(", "a", "=", "=", "1", ")">>, <<"$", "{", "x", "}">>,
     <<"$", "{">> \o kwRequest \o <<".", "p", "}">>}

UnitInputs ==
    {Interpolate(u \o g \o op \o g \o v) :
        u \in Units, v \in Units, g \in {<<>>, sp},
        op \in {<<">">>, <<"=", "=">>}}
      \cup {Interpolate(IfThenElse(u, v, <<"0">>)) : u \in Units, v \in Units}
      \cup {Interpolate(l \o u) : l \in {<<>>, <<"a", " ">>}, u \in Units}


\* Code written with different whitespace: the lexemes of a phrase, with a
\* gap of its own before each and one at the end.
Phrases ==
    {<< <<"a">>, <<">">>, <<"b">> >>,
     << <<"a">>, <<"b">> >>,
     << kwRequest, <<".">>, <<"p">>, <<"[">>, <<"0">>, <<"]">> >>,
     << <<"$", "{">>, <<"a">>, <<"}">>, <<">">>, <<"$", "{">>, <<"b">>, <<"}">> >>,
     << <<"(">>, <<"a">>, <<"b">>, <<")">>, <<"=", "=">>, <<"c">> >>,
     << kwIf, <<"(">>, <<"a">>, <<")">>, kwThen, <<"1">>, kwElse, <<"0">> >>,
     << <<"a">>, <<">">> >>,
     << <<".">>, <<"p">> >>,
     << <<"a">>, <<"[">>, <<"7">>, <<"]">> >>,
     << <<"(">>, <<")">> >>}

Gaps == {<<>>, sp, <<"\n", " ">>}

\* ph with gap g[i] before its i-th lexeme and g[Len(ph) + 1] at its end.
RECURSIVE Spaced(_, _, _)
Spaced(ph, g, i) ==
    IF i > Len(ph) THEN g[i]
    ELSE g[i] \o ph[i] \o Spaced(ph, g, i + 1)

\* Each gap is chosen freely in phrases of up to MaxGaps gaps; in longer ones
\* the gaps alternate between two choices.
MaxGaps == 5

GapsOf(ph) ==
    IF Len(ph) + 1 <= MaxGaps
    THEN [1..(Len(ph) + 1) -> Gaps]
    ELSE {[i \in 1..(Len(ph) + 1) |-> IF i % 2 = 0 THEN x ELSE y] :
             x \in Gaps, y \in Gaps}

SpacedInputs ==
    UNION {{Interpolate(Spaced(ph, g, 1)) : g \in GapsOf(ph)} : ph \in Phrases}


\* Raw text with digits, hyphens, underscores and lone = around one operator.
LexWords ==
    {<<"a">>, <<"1">>, <<"u", "-", "i">>, <<"u", "_", "1">>, <<"a", "=", "b">>,
     <<"=">>, <<"a", "=">>, <<"=", "1">>}

LexInputs ==
    {Interpolate(l \o op \o r) :
        l \in LexWords, op \in ComparisonLexemes \cup {<<".">>}, r \in LexWords}

\* Conditionals with a keyword too many, too few or out of place.
Branches == {<<"a">>, <<"b">>, kwRequest \o <<".", "p">>}

MisplacedInputs ==
    {Interpolate(kwIf \o sp \o x \o sp \o kwThen \o sp \o y \o sp \o kwThen
                   \o sp \o z \o t) :
        x \in Branches, y \in Branches, z \in Branches,
        t \in {<<>>, sp \o kwElse \o <<" ", "d">>,
               sp \o kwElse \o <<" ", "d", " ">> \o kwElse \o <<" ", "e">>}}
      \cup {Interpolate(IfThenElse(x, y, z) \o sp \o kwElse \o sp \o y) :
               x \in Branches, y \in Branches, z \in Branches}
      \cup {Interpolate(kwIf \o sp \o x \o sp \o kwThen \o g \o kwElse \o sp \o z) :
               x \in Branches, z \in Branches, g \in {<<>>, sp, <<" ", "\n">>}}
      \cup {Interpolate(kwIf \o sp \o x \o sp \o kwElse \o sp \o z \o t) :
               x \in Branches, z \in Branches,
               t \in {<<>>, sp \o kwThen \o <<" ", "d">>}}

\* Runs of operands at one nesting level.
MaxRun == 3

Operands ==
    {<<"a">>, <<"1">>, kwRequest, <<"(", "a", ">", "1", ")">>,
     <<"$", "{", "b", "}">>}

RunOf(os) == Flatten([i \in 1..Len(os) |-> os[i] \o sp])

RunInputs == {Interpolate(RunOf(os)) : os \in SeqsUpTo(Operands, MaxRun) \ {<<>>}}

\* A closing bracket without its opening one, and a space in its place.
CloserLefts ==
    {<<>>, <<"a">>, <<"a", ">">>, kwRequest \o <<".", "p">>,
     <<"(", "a", ">", "1", ")">>}
CloserRights == {<<>>, <<"1">>, <<".", "p">>, <<">", "1">>}
Closers == {<<")">>, <<"]">>}

StrayCloserInputs ==
    {Interpolate(x \o c \o y) :
        x \in CloserLefts, c \in Closers \cup {sp}, y \in CloserRights}
      \cup {x \o c \o y : x \in {<<>>, <<"a">>}, c \in Closers \cup {<<"}">>},
                          y \in {<<>>, <<"b">>, <<"$", "{", "b", "}">>}}

\* Comparisons in a row, without grouping.
MaxOps == 2

ChainOperands == {<<"a">>, kwRequest, <<"(", "a", ">", "1", ")">>}
ChainOps == {<<">">>, <<"<", "=">>, <<"=", "=">>}

\* The operators of ops between the operands of xs, gap around the operators.
RECURSIVE ChainedText(_, _, _)
ChainedText(xs, ops, gap) ==
    IF ops = <<>> THEN Head(xs)
    ELSE Head(xs) \o gap \o Head(ops) \o gap \o ChainedText(Tail(xs), Tail(ops), gap)

ChainedCases ==
    UNION {[xs : [1..(n + 1) -> ChainOperands], ops : [1..n -> ChainOps],
            gap : {<<>>, sp}] : n \in 2..MaxOps}
      \cup [xs : [1..3 -> {<<"a">>, <<"1">>}], ops : [1..2 -> ComparisonLexemes],
            gap : {<<>>}]

ChainedInputs ==
    {Interpolate(ChainedText(c.xs, c.ops, c.gap)) : c \in ChainedCases}

Inputs ==
    LitInputs \cup CodeInputs \cup CondInputs \cup ChainInputs
      \cup SelectInputs \cup CompareInputs \cup CompareCondInputs
      \cup MixedInputs \cup PlainInputs
      \cup StrayInputs \cup DotInputs \cup IndexInputs \cup UnmatchedInputs
      \cup AbortInputs \cup NestedInputs \cup UnitInputs \cup SpacedInputs
      \cup LexInputs \cup MisplacedInputs \cup RunInputs
      \cup StrayCloserInputs \cup ChainedInputs

(***************************************************************************)
(* The specification: parse(input), one iteration of go at a time.         *)
(***************************************************************************)
conf == Conf(stack, result)

\* No client is in use while the parser runs.
NoConnection == 0
NoCalls == <<>>
NoApp == <<>>

\* The multi-target client and the worker service are not in use.
OthersAtRest ==
    /\ clients = NoCalls
    /\ multi = NoCalls
    /\ outcomes = <<>>
    /\ retryConfig = <<>>
    /\ app = NoApp

Init ==
    /\ input \in Inputs
    /\ stack = InitialConf(Tokenise(input)).stack
    /\ result = NoResult
    /\ client = NoConnection
    /\ connections = 0
    /\ endpointOk = TRUE
    /\ calls = NoCalls
    /\ OthersAtRest

Running == stack # <<>>

\* The running activation's next token is of kind k.
Reads(k) == Running /\ Acquire(Top(conf)).some /\ Acquire(Top(conf)).tok.kind = k

Becomes(c) ==
    /\ stack' = c.stack
    /\ result' = c.result
    /\ UNCHANGED <<input, client, connections, endpointOk, calls>>
    /\ UNCHANGED <<multiVars, app>>

GoRawString == Reads("RawString") /\ Becomes(OnRawString(conf))
GoRequest == Reads("Request") /\ Becomes(OnRequest(conf))
GoWorkerResponse == Reads("WorkerResponse") /\ Becomes(OnWorkerResponse(conf))
GoInterpolationStart ==
    Reads("InterpolationStart") /\ Becomes(OnInterpolationStart(conf))
GoOpenParen == Reads("OpenParen") /\ Becomes(OnOpenParen(conf))
GoGreaterThanOrEqualTo ==
    Reads("GreaterThanOrEqualTo") /\ Becomes(OnGreaterThanOrEqualTo(conf))
GoGreaterThan == Reads("GreaterThan") /\ Becomes(OnGreaterThan(conf))
GoLessThan == Reads("LessThan") /\ Becomes(OnLessThan(conf))
GoLessThanOrEqualTo ==
    Reads("LessThanOrEqualTo") /\ Becomes(OnLessThanOrEqualTo(conf))
GoEqualTo == Reads("EqualTo") /\ Becomes(OnEqualTo(conf))
GoDot == Reads("Dot") /\ Becomes(OnDot(conf))
GoOpenSquareBracket ==
    Reads("OpenSquareBracket") /\ Becomes(OnOpenSquareBracket(conf))
GoIf == Reads("If") /\ Becomes(OnIf(conf))
GoThen == Reads("Then") /\ Becomes(OnThen(conf))
GoElse == Reads("Else") /\ Becomes(OnElse(conf))
GoPassedOver ==
    /\ Running
    /\ Acquire(Top(conf)).some
    /\ Acquire(Top(conf)).tok.kind \in PassedOver
    /\ Becomes(OnPassedOver(conf))
GoEnd == Running /\ ~Acquire(Top(conf)).some /\ Becomes(OnEnd(conf))

Next ==
    \/ GoRawString
    \/ GoRequest
    \/ GoWorkerResponse
    \/ GoInterpolationStart
    \/ GoOpenParen
    \/ GoGreaterThanOrEqualTo
    \/ GoGreaterThan
    \/ GoLessThan
    \/ GoLessThanOrEqualTo
    \/ GoEqualTo
    \/ GoDot
    \/ GoOpenSquareBracket
    \/ GoIf
    \/ GoThen
    \/ GoElse
    \/ GoPassedOver
    \/ GoEnd

Spec == Init /\ [][Next]_vars

Done == stack = <<>> /\ result.kind # "None"

(***************************************************************************)
(* GrpcClient::call and GrpcClient::get (client.rs, lines 48-93).  Several *)
(* tasks call through clones of one client: they share the mutex-guarded   *)
(* Option<GrpcClientConnection>.  A connection is the number it was made   *)
(* as, so that two connections are never mistaken for one another.  What   *)
(* the user function returns is the environment's choice.                  *)
(***************************************************************************)
NCallers == 2
MaxAttempts == 2

Callers == 1..NCallers
Values == {"r1", "r2"}
Codes == {"Unavailable", "NotFound", "Internal"}

\* Err(Status) with the status code.
Status(code) == [kind |-> "Err", val |-> code]

\* Lines 181-183.
RequiresReconnect(e) == e.val = "Unavailable"

\* A task that has not called yet.
Idle ==
    [pc |-> "idle", attempts |-> 0, entry |-> NoConnection,
     outcome |-> NoResult, ret |-> NoResult]

At(p, pc) == calls[p].pc = pc

Moves(p, c) ==
    /\ calls' = [calls EXCEPT ![p] = c]
    /\ UNCHANGED <<input, stack, result, endpointOk>>
    /\ UNCHANGED <<multiVars, app>>

\* Line 53: RetryState::new.
Call(p) ==
    /\ At(p, "idle")
    /\ Moves(p, [calls[p] EXCEPT !.pc = "get", !.attempts = 0])
    /\ UNCHANGED <<client, connections>>

\* Lines 55-59 with get finding Some(client) (81-82): start_attempt, and the
\* clone of the cached connection.
GetCached(p) ==
    /\ At(p, "get")
    /\ client # NoConnection
    /\ Moves(p, [calls[p] EXCEPT !.pc = "invoke", !.attempts = @ + 1,
                                 !.entry = client])
    /\ UNCHANGED <<client, connections>>

\* Lines 55-59 with get finding None (83-91): a new connection is made,
\* cached and returned, all under the lock.
GetConnected(p) ==
    /\ At(p, "get")
    /\ client = NoConnection
    /\ endpointOk
    /\ connections' = connections + 1
    /\ client' = connections + 1
    /\ Moves(p, [calls[p] EXCEPT !.pc = "invoke", !.attempts = @ + 1,
                                 !.entry = connections + 1])

\* Line 84: Endpoint::new fails, and line 59 returns the error as a Status.
GetFailed(p) ==
    /\ At(p, "get")
    /\ client = NoConnection
    /\ ~endpointOk
    /\ Moves(p, [calls[p] EXCEPT !.pc = "done", !.attempts = @ + 1,
                                 !.ret = Status("Unknown")])
    /\ UNCHANGED <<client, connections>>

\* Line 61: f returned Ok(result).
ReturnsOk(p) ==
    /\ At(p, "invoke")
    /\ \E v \in Values :
          Moves(p, [calls[p] EXCEPT !.pc = "done", !.outcome = Ok(v),
                                    !.ret = Ok(v)])
    /\ UNCHANGED <<client, connections>>

\* Lines 62-63: f returned an error that requires a reconnect.
ReturnsUnavailable(p) ==
    /\ At(p, "invoke")
    /\ Moves(p, [calls[p] EXCEPT !.pc = "take",
                                 !.outcome = Status("Unavailable")])
    /\ UNCHANGED <<client, connections>>

\* Lines 70-72: f returned any other error.
ReturnsOtherError(p) ==
    /\ At(p, "invoke")
    /\ \E c \in Codes :
          /\ ~RequiresReconnect(Status(c))
          /\ Moves(p, [calls[p] EXCEPT !.pc = "done", !.outcome = Status(c),
                                       !.ret = Status(c)])
    /\ UNCHANGED <<client, connections>>

\* Line 64 without the take: the cached connection stays.
TakeNothing(p) ==
    /\ At(p, "take")
    /\ Moves(p, [calls[p] EXCEPT !.pc = "backoff"])
    /\ UNCHANGED <<client, connections>>

\* Line 64: self.client.lock().await.take().
Take(p) ==
    /\ At(p, "take")
    /\ client' = NoConnection
    /\ Moves(p, [calls[p] EXCEPT !.pc = "backoff"])
    /\ UNCHANGED connections

\* Lines 65-69: retries.failed_attempt() says whether to go round again.
\* RetryState is not among the files under src/: its answer is any boolean,
\* and no more than MaxAttempts attempts are followed.
FailedAttempt(p) ==
    /\ At(p, "backoff")
    /\ \E again \in IF calls[p].attempts < MaxAttempts THEN BOOLEAN ELSE {FALSE} :
          Moves(p, IF again
                   THEN [calls[p] EXCEPT !.pc = "get"]
                   ELSE [calls[p] EXCEPT !.pc = "done", !.ret = calls[p].outcome])
    /\ UNCHANGED <<client, connections>>

ClientInit ==
    /\ input = <<>>
    /\ stack = <<>>
    /\ result = NoResult
    /\ client = NoConnection
    /\ connections = 0
    /\ endpointOk \in BOOLEAN
    /\ calls = [p \in Callers |-> Idle]
    /\ OthersAtRest

ClientNext ==
    \E p \in Callers :
       \/ Call(p)
       \/ GetCached(p)
       \/ GetConnected(p)
       \/ GetFailed(p)
       \/ ReturnsOk(p)
       \/ ReturnsUnavailable(p)
       \/ ReturnsOtherError(p)
       \/ Take(p)
       \/ FailedAttempt(p)

ClientSpec == ClientInit /\ [][ClientNext]_vars

(***************************************************************************)
(* MultiTargetGrpcClient::call and ::get (client.rs, lines 115-159): the   *)
(* cache is a map from endpoint to connection, and get is one atomic step  *)
(* on the endpoint's entry.  Beside the calls on it runs one call on a     *)
(* GrpcClient with the same configuration and the same user function, so   *)
(* that the two can be compared: the user function's result at its n-th    *)
(* invocation is outcomes[n], whichever client invokes it, and             *)
(* failed_attempt of a RetryState with n started attempts answers          *)
(* retryConfig[n].                                                         *)
(***************************************************************************)
MaxTries == MaxAttempts + 1

\* GrpcClient.endpoint (line 28), and another endpoint for the multi-target
\* client.
endpoint == "e1"
Endpoints == {endpoint, "e2"}

\* Endpoint::new (lines 84, 152) fails for a URI it cannot take.
EndpointIsValid(e) == e = endpoint => endpointOk

\* What f may return at one invocation.
Outcomes == {Ok("r1"), Status("Unavailable"), Status("NotFound")}

\* RetryState::new (lines 53, 120).
NewRetryState == [attempts |-> 0]

\* retries.start_attempt() (line 55).
StartAttempt(retries) == [retries EXCEPT !.attempts = @ + 1]

\* retries.failed_attempt() (lines 65, 130): the configuration's answer for
\* the attempts this retry state has started.
FailedAttemptOf(retries) == retryConfig[retries.attempts]

\* The call on the GrpcClient that is compared.
single == 1

MultiIdle ==
    [pc |-> "idle", endpoint |-> endpoint, retries |-> NewRetryState,
     tries |-> 0, entry |-> NoConnection, outcome |-> NoResult,
     ret |-> NoResult]

MultiAt(m, pc) == multi[m].pc = pc

MultiMoves(m, c) ==
    /\ multi' = [multi EXCEPT ![m] = c]
    /\ UNCHANGED <<parserVars, client, endpointOk, calls, outcomes,
                   retryConfig, app>>

\* Line 120: RetryState::new, for a call to endpoint e.
MultiCall(m) ==
    /\ MultiAt(m, "idle")
    /\ \E e \in Endpoints :
          MultiMoves(m, [multi[m] EXCEPT !.pc = "get", !.endpoint = e,
                                         !.retries = NewRetryState])
    /\ UNCHANGED <<clients, connections>>

\* Lines 122-124 with the entry occupied (148-157): the clone of the cached
\* connection.  No start_attempt is called in this loop.
MultiGetCached(m) ==
    /\ MultiAt(m, "get")
    /\ clients[multi[m].endpoint] # NoConnection
    /\ MultiMoves(m, [multi[m] EXCEPT !.pc = "invoke", !.tries = @ + 1,
                                      !.entry = clients[multi[m].endpoint]])
    /\ UNCHANGED <<clients, connections>>

\* Lines 122-124 with the entry vacant (151-156): a new connection is made
\* and inserted for this endpoint.
MultiGetConnected(m) ==
    /\ MultiAt(m, "get")
    /\ clients[multi[m].endpoint] = NoConnection
    /\ EndpointIsValid(multi[m].endpoint)
    /\ connections' = connections + 1
    /\ clients' = [clients EXCEPT ![multi[m].endpoint] = connections + 1]
    /\ MultiMoves(m, [multi[m] EXCEPT !.pc = "invoke", !.tries = @ + 1,
                                      !.entry = connections + 1])

\* Line 152: Endpoint::new fails, and line 124 returns the error as a Status.
MultiGetFailed(m) ==
    /\ MultiAt(m, "get")
    /\ clients[multi[m].endpoint] = NoConnection
    /\ ~EndpointIsValid(multi[m].endpoint)
    /\ MultiMoves(m, [multi[m] EXCEPT !.pc = "done", !.tries = @ + 1,
                                      !.ret = Status("Unknown")])
    /\ UNCHANGED <<clients, connections>>

\* Line 125: what f returns at this invocation.
MultiOutcome(m) == outcomes[multi[m].tries]

\* Line 126: f returned Ok(result).
MultiReturnsOk(m) ==
    /\ MultiAt(m, "invoke")
    /\ MultiOutcome(m).kind = "Ok"
    /\ MultiMoves(m, [multi[m] EXCEPT !.pc = "done",
                                      !.outcome = MultiOutcome(m),
                                      !.ret = MultiOutcome(m)])
    /\ UNCHANGED <<clients, connections>>

\* Lines 127-128: f returned an error that requires a reconnect.
MultiReturnsUnavailable(m) ==
    /\ MultiAt(m, "invoke")
    /\ MultiOutcome(m).kind = "Err"
    /\ RequiresReconnect(MultiOutcome(m))
    /\ MultiMoves(m, [multi[m] EXCEPT !.pc = "remove",
                                      !.outcome = MultiOutcome(m)])
    /\ UNCHANGED <<clients, connections>>

\* Lines 135-137: f returned any other error.
MultiReturnsOtherError(m) ==
    /\ MultiAt(m, "invoke")
    /\ MultiOutcome(m).kind = "Err"
    /\ ~RequiresReconnect(MultiOutcome(m))
    /\ MultiMoves(m, [multi[m] EXCEPT !.pc = "done",
                                      !.outcome = MultiOutcome(m),
                                      !.ret = MultiOutcome(m)])
    /\ UNCHANGED <<clients, connections>>

\* Line 129: self.clients.remove(&endpoint).
Remove(m) ==
    /\ MultiAt(m, "remove")
    /\ clients' = [clients EXCEPT ![multi[m].endpoint] = NoConnection]
    /\ MultiMoves(m, [multi[m] EXCEPT !.pc = "backoff"])
    /\ UNCHANGED connections

\* Lines 130-134: the retry state, which has started no attempt, says whether
\* to go round again.  No more than MaxTries rounds are followed.
MultiFailedAttempt(m) ==
    /\ MultiAt(m, "backoff")
    /\ FailedAttemptOf(multi[m].retries) => multi[m].tries < MaxTries
    /\ MultiMoves(m, IF FailedAttemptOf(multi[m].retries)
                     THEN [multi[m] EXCEPT !.pc = "get"]
                     ELSE [multi[m] EXCEPT !.pc = "done",
                                           !.ret = multi[m].outcome])
    /\ UNCHANGED <<clients, connections>>

\* GrpcClient::call (48-76) by the one caller `single`, with the same f and
\* the same configuration.  One call alone never finds the cache occupied:
\* it is empty at first and after every take.
SingleInvoked ==
    /\ \/ ReturnsOk(single)
       \/ ReturnsUnavailable(single)
       \/ ReturnsOtherError(single)
    /\ calls'[single].outcome = outcomes[calls[single].attempts]
    /\ UNCHANGED clients

SingleFailedAttempt ==
    /\ FailedAttempt(single)
    /\ (calls'[single].pc = "get")
         = FailedAttemptOf([attempts |-> calls[single].attempts])
    /\ UNCHANGED clients

SingleCall == Call(single) /\ UNCHANGED clients
SingleGetConnected == GetConnected(single) /\ UNCHANGED clients
SingleGetFailed == GetFailed(single) /\ UNCHANGED clients
SingleTake == Take(single) /\ UNCHANGED clients

\* The configuration stops after MaxAttempts started attempts at the latest.
RetryConfigs ==
    {c \in [0..MaxAttempts -> BOOLEAN] : ~c[MaxAttempts]}

MultiInit ==
    /\ input = <<>>
    /\ stack = <<>>
    /\ result = NoResult
    /\ client = NoConnection
    /\ connections = 0
    /\ endpointOk \in BOOLEAN
    /\ calls = [p \in Callers |-> Idle]
    /\ clients = [e \in Endpoints |-> NoConnection]
    /\ multi = [m \in Callers |-> MultiIdle]
    /\ outcomes \in [1..MaxTries -> Outcomes]
    /\ retryConfig \in RetryConfigs
    /\ app = NoApp

MultiNext ==
    \/ SingleCall
    \/ SingleGetConnected
    \/ SingleGetFailed
    \/ SingleInvoked
    \/ SingleTake
    \/ SingleFailedAttempt
    \/ \E m \in Callers :
          \/ MultiCall(m)
          \/ MultiGetCached(m)
          \/ MultiGetConnected(m)
          \/ MultiGetFailed(m)
          \/ MultiReturnsOk(m)
          \/ MultiReturnsUnavailable(m)
          \/ MultiReturnsOtherError(m)
          \/ Remove(m)
          \/ MultiFailedAttempt(m)

MultiSpec == MultiInit /\ [][MultiNext]_vars

(***************************************************************************)
(* The worker service's start-up (main.rs): async_main (29-40) and app     *)
(* (42-135).  app holds where the start-up stands, what it has done and    *)
(* what it returned; servers holds the three spawned tasks.  Whether the   *)
(* migration, the construction of the services and a server succeed is the *)
(* environment's choice.  A spawned task runs beside app from the moment   *)
(* it is spawned.                                                          *)
(***************************************************************************)
Servers == {"custom_request_server", "worker_server", "grpc_server"}
DbConfigs == {"Postgres", "Sqlite"}

\* std::io::Result<()>.
AppOk == [kind |-> "Ok", val |-> <<>>]
IoError(msg) == [kind |-> "Err", val |-> msg]

AppAt(pc) == app.pc = pc

AppBecomes(a) ==
    /\ app' = a
    /\ UNCHANGED <<parserVars, client, connections, endpointOk, calls, multiVars>>

\* Lines 30-34: --dump-openapi-yaml prints the specification; app is not
\* called.
DumpOpenApiYaml ==
    /\ AppAt("async_main")
    /\ app.dump
    /\ AppBecomes([app EXCEPT !.pc = "returned", !.ret = AppOk])

\* Lines 36-38 and 46-64: metrics, configuration, and the tracing subscriber
\* the configuration asks for.
InitTracing ==
    /\ AppAt("async_main")
    /\ ~app.dump
    /\ AppBecomes([app EXCEPT !.pc = "migrate",
                              !.tracing = IF app.enable_tracing_console
                                          THEN "console"
                                          ELSE IF app.enable_json_log
                                               THEN "json"
                                               ELSE "fmt"])

\* Lines 66-83 with the migration failing, going on to the services all the
\* same.
MigrateUnchecked ==
    /\ AppAt("migrate")
    /\ \E ok \in BOOLEAN :
          AppBecomes([app EXCEPT !.pc = "services",
                                 !.migrated = IF ok THEN app.db ELSE "none"])

\* Lines 66-83: the migration of the configured backend; an error is
\* returned as "Init error".
Migrate ==
    /\ AppAt("migrate")
    /\ \E ok \in BOOLEAN :
          AppBecomes(IF ok
                     THEN [app EXCEPT !.pc = "services", !.migrated = app.db]
                     ELSE [app EXCEPT !.pc = "returned",
                                      !.ret = IoError("Init error")])

\* Lines 85-87: Services::new, its error returned.
NewServices ==
    /\ AppAt("services")
    /\ \E ok \in BOOLEAN :
          AppBecomes(IF ok
                     THEN [app EXCEPT !.pc = "custom_request_server",
                                      !.services = TRUE]
                     ELSE [app EXCEPT !.pc = "returned",
                                      !.ret = IoError("Services")])

\* tokio::spawn of server s, after which app stands at pc.
Spawn(s, pc) ==
    AppBecomes([app EXCEPT !.pc = pc, !.servers[s] = "running"])

\* Lines 93-106.
SpawnCustomRequestServer ==
    /\ AppAt("custom_request_server")
    /\ Spawn("custom_request_server", "worker_server")

\* Lines 108-118.
SpawnWorkerServer ==
    /\ AppAt("worker_server")
    /\ Spawn("worker_server", "grpc_server")

\* Lines 120-127.
SpawnGrpcServer ==
    /\ AppAt("grpc_server")
    /\ Spawn("grpc_server", "select")

\* A server task ends: run returned, or it failed and expect panicked
\* (lines 103-105, 115-117, 121-126).  Either way its JoinHandle is ready.
ServerEnds(s) ==
    /\ app.servers[s] = "running"
    /\ \E end \in {"finished", "panicked"} :
          AppBecomes([app EXCEPT !.servers[s] = end])

Ended(s) == app.servers[s] \in {"finished", "panicked"}

\* Lines 129-134: select! over the three JoinHandles, then Ok(()).
Select ==
    /\ AppAt("select")
    /\ \E s \in Servers : Ended(s)
    /\ AppBecomes([app EXCEPT !.pc = "returned", !.ret = AppOk])

\* What app itself does, as opposed to the tasks it spawned.
AppStep ==
    \/ DumpOpenApiYaml
    \/ InitTracing
    \/ Migrate
    \/ NewServices
    \/ SpawnCustomRequestServer
    \/ SpawnWorkerServer
    \/ SpawnGrpcServer
    \/ Select

AppInit ==
    /\ input = <<>>
    /\ stack = <<>>
    /\ result = NoResult
    /\ client = NoConnection
    /\ connections = 0
    /\ endpointOk = TRUE
    /\ calls = NoCalls
    /\ clients = NoCalls
    /\ multi = NoCalls
    /\ outcomes = <<>>
    /\ retryConfig = <<>>
    /\ \E dump, console, json \in BOOLEAN, db \in DbConfigs :
          app = [pc |-> "async_main", dump |-> dump,
                 enable_tracing_console |-> console, enable_json_log |-> json,
                 db |-> db, tracing |-> "none", migrated |-> "none",
                 services |-> FALSE,
                 servers |-> [s \in Servers |-> "none"],
                 ret |-> NoResult]

AppNext ==
    \/ DumpOpenApiYaml
    \/ InitTracing
    \/ Migrate
    \/ NewServices
    \/ SpawnCustomRequestServer
    \/ SpawnWorkerServer
    \/ SpawnGrpcServer
    \/ \E s \in Servers : ServerEnds(s)
    \/ Select

\* block_on (21-27) drives async_main, and the runtime the spawned tasks.
AppSpec == AppInit /\ [][AppNext]_vars /\ WF_vars(AppStep)

(***************************************************************************)
(* Properties                                                              *)
(***************************************************************************)
FailedExpression == Err("failed expression. Internal logical error", <<>>)

Parses(s) == ParseCode(s).kind = "Ok"

\* C1: a code region `if P then T else E` whose three parts parse yields
\* Cond(p, t, e), each of p, t, e being the parse of the whole of P, T, E on
\* its own in Code from Empty; a then-branch of several tokens is one
\* expression.
ParsedFragments == {f \in Fragments : Parses(f)}

\* Each region of three parsing parts, with the Cond of their parses.
CondOfParts ==
    {<<Interpolate(IfThenElse(p, t, e)),
       Ok(Cond(ParseCode(p).val, ParseCode(t).val, ParseCode(e).val))>> :
        p \in ParsedFragments, t \in ParsedFragments, e \in ParsedFragments}

C1_CondOfWholeBranches ==
    Done => \A c \in CondOfParts : input = c[1] => result = c[2]

C1_Witness ==
    /\ Done
    /\ input = Interpolate(IfThenElse(<<"a", ">", "1">>,
                  kwRequest \o <<".", "p", ".", "u", "-", "i">>, <<"a">>))
    /\ result = Ok(Cond(Binary("GreaterThan", Literal(<<"a">>), Literal(<<"1">>)),
                        SelectField(SelectField(Request, <<"p">>),
                                    <<"u", "-", "i">>),
                        Literal(<<"a">>)))

\* C2: the else-branch runs to the end of the token stream, so a chain
\* `if p1 then t1 else if p2 then t2 else ... e` is the right-nested
\* Cond(p1, t1, Cond(p2, t2, ... e)).
AtomExpr(x) ==
    IF x = <<"a">> THEN Literal(<<"a">>) ELSE SelectField(Request, <<"p">>)

ChainShapes(d) == [p : [1..d -> Atoms], t : [1..d -> Atoms], e : Atoms]

RECURSIVE ChainText(_, _)
ChainText(sh, i) ==
    IF i > Len(sh.p) THEN sh.e
    ELSE IfThenElse(sh.p[i], sh.t[i], ChainText(sh, i + 1))

RECURSIVE ChainExpr(_, _)
ChainExpr(sh, i) ==
    IF i > Len(sh.p) THEN AtomExpr(sh.e)
    ELSE Cond(AtomExpr(sh.p[i]), AtomExpr(sh.t[i]), ChainExpr(sh, i + 1))

\* Each chain up to MaxDepth, with its right-nested Cond.
CondOfChains ==
    {<<Interpolate(ChainText(sh, 1)), Ok(ChainExpr(sh, 1))>> :
        sh \in UNION {ChainShapes(d) : d \in 1..MaxDepth}}

C2_ElseChainNestsRight ==
    Done => \A c \in CondOfChains : input = c[1] => result = c[2]

C2_Witness ==
    /\ Done
    /\ input = Interpolate(IfThenElse(<<"a">>, kwRequest \o <<".", "p">>,
                  IfThenElse(kwRequest \o <<".", "p">>, <<"a">>, <<"a">>)))
    /\ result = Ok(Cond(Literal(<<"a">>), SelectField(Request, <<"p">>),
                        Cond(SelectField(Request, <<"p">>), Literal(<<"a">>),
                             Literal(<<"a">>))))

\* C3: at every nesting level, an activation whose cursor is exhausted
\* returns Ok(e) exactly when its prev is Complete(e): the top level returns
\* it from parse, an inner one hands it to the prev waiting below; with prev
\* Empty or InComplete the parse ends in "failed expression. Internal
\* logical error".  So an empty or blank `${}` is that error.
AtEnd == Running /\ ~Acquire(Top(conf)).some

C3_EndStep ==
    AtEnd =>
      LET f == Top(conf)
          n == Len(stack)
      IN  IF f.prev.kind = "Complete"
          THEN IF n = 1
               THEN stack' = <<>> /\ result' = Ok(f.prev.args[1])
               ELSE /\ result' = NoResult
                    /\ Len(stack') = n - 1
                    /\ stack'[n - 1].prev =
                         ContinueBuild(stack[n - 1].prev, f.prev.args[1])
          ELSE stack' = <<>> /\ result' = FailedExpression

BlankRegions == {Interpolate(<<>>), Interpolate(sp), Interpolate(sp \o sp)}

\* A comparison without its right side, a conditional without its else-branch.
UnfinishedRegions ==
    {Interpolate(l \o op) : l \in Sides \ {<<>>}, op \in ComparisonLexemes}
      \cup {Interpolate(IfThenElse(p, t, <<>>)) : p \in Fragments, t \in Fragments}

C3_OkIffComplete ==
    /\ [][C3_EndStep]_vars
    /\ [](Done /\ input \in BlankRegions => result = FailedExpression)
    /\ [](Done /\ input \in UnfinishedRegions => result.kind = "Err")

C3_Witness ==
    /\ Done
    /\ input = Interpolate(sp)
    /\ result = FailedExpression

\* C4: the builder an `if` installs is complete only after three operands:
\* after the first and the second it is still InComplete(Condition, _), after
\* the third it is Complete(Cond(o1, o2, o3)), the operands in the order in
\* which continue_build received them.
C4_BuilderStep ==
    \A i \in 1..Len(stack) :
       (/\ i <= Len(stack')
        /\ IsPendingCondition(stack[i].prev)
        /\ stack'[i].prev # stack[i].prev)
         => LET p == stack[i].prev
                q == stack'[i].prev
            IN  IF Len(p.args) < 2
                THEN /\ IsPendingCondition(q)
                     /\ q.ctor = "Cond"
                     /\ Len(q.args) = Len(p.args) + 1
                     /\ SubSeq(q.args, 1, Len(p.args)) = p.args
                ELSE /\ q.kind = "Complete"
                     /\ Len(q.args[1]) = 4
                     /\ q.args[1] = Cond(p.args[1], p.args[2], q.args[1][4])

\* An `if` installs the builder with no operand; no builder holds more than two.
C4_BuilderInstalled ==
    /\ \A i \in 1..Len(stack) :
          IsPendingCondition(stack[i].prev) => Len(stack[i].prev.args) \in 0..2
    /\ Reads("If") /\ Len(stack') > Len(stack)
         => stack'[Len(stack)].prev = InComplete("Condition", "Cond", <<>>)

C4_CondAfterThreeOperands == [][C4_BuilderStep /\ C4_BuilderInstalled]_vars

\* The third operand has just completed Cond(a > 1, request.p.u-i, a).
C4_Witness ==
    /\ Len(stack) = 2
    /\ input = Interpolate(IfThenElse(<<"a", ">", "1">>,
                  kwRequest \o <<".", "p", ".", "u", "-", "i">>, <<"a">>))
    /\ stack[2].prev =
         Complete(Cond(Binary("GreaterThan", Literal(<<"a">>), Literal(<<"1">>)),
                       SelectField(SelectField(Request, <<"p">>),
                                   <<"u", "-", "i">>),
                       Literal(<<"a">>)))

\* C5: in code, `.f` and `[n]` extend the whole of the preceding Complete
\* expression e to SelectField(e, f) and SelectIndex(e, n), so a chain of
\* selections nests to the left: request.p.u-i[0] is
\* SelectIndex(SelectField(SelectField(Request, p), u-i), 0).
RootExpr(r) ==
    CASE r = kwRequest -> Request
      [] r = kwWorkerResponse -> WorkerResponse
      [] r = <<"a">> -> Literal(<<"a">>)
      [] r = <<"a", " ", "b">> ->
           Concat(<<Literal(<<"a">>), Literal(<<"b">>)>>)
      [] r = <<"(", "a", ">", "1", ")">> ->
           Binary("GreaterThan", Literal(<<"a">>), Literal(<<"1">>))

ValidSelectors ==
    {<<".", "p">>, <<".", " ", "u", "-", "i">>, <<"[", "0", "]">>,
     <<"[", " ", "1", "2", " ", "]">>}

Selected(e, sel) ==
    CASE sel = <<".", "p">> -> SelectField(e, <<"p">>)
      [] sel = <<".", " ", "u", "-", "i">> -> SelectField(e, <<"u", "-", "i">>)
      [] sel = <<"[", "0", "]">> -> SelectIndex(e, 0)
      [] sel = <<"[", " ", "1", "2", " ", "]">> -> SelectIndex(e, 12)

RECURSIVE SelectedAll(_, _)
SelectedAll(e, ss) ==
    IF ss = <<>> THEN e ELSE SelectedAll(Selected(e, Head(ss)), Tail(ss))

\* Each root under up to MaxSel valid selections, with the left-nested
\* selection.
SelectionOfRoots ==
    {<<Interpolate(r \o Flatten(ss)), Ok(SelectedAll(RootExpr(r), ss))>> :
        r \in Roots \ {<<>>}, ss \in SeqsUpTo(ValidSelectors, MaxSel)}

C5_SelectionsNestLeft ==
    Done => \A c \in SelectionOfRoots : input = c[1] => result = c[2]

C5_Witness ==
    /\ Done
    /\ input = Interpolate(kwRequest \o <<".", "p", ".", " ", "u", "-", "i",
                                         "[", "0", "]">>)
    /\ result = Ok(SelectIndex(SelectField(SelectField(Request, <<"p">>),
                                           <<"u", "-", "i">>), 0))

\* C6: each of the five comparison tokens read with prev = Complete(lhs)
\* leaves InComplete tagged with its own context, and the next complete
\* operand rhs turns that into Complete(Op(lhs, rhs)), Op the constructor of
\* the token and lhs the whole expression accumulated before it.
CtorOf(op) ==
    CASE op = <<">">> -> "GreaterThan"
      [] op = <<">", "=">> -> "GreaterThanOrEqualTo"
      [] op = <<"<">> -> "LessThan"
      [] op = <<"<", "=">> -> "LessThanOrEqualTo"
      [] op = <<"=", "=">> -> "EqualTo"

IsPendingComparison(p) == p.kind = "InComplete" /\ p.scope # "Condition"

C6_OperatorStep ==
    \A k \in ComparisonCtors :
       Reads(k) /\ Top(conf).prev.kind = "Complete"
         => /\ Len(stack') = Len(stack)
            /\ stack'[Len(stack)].prev =
                 InComplete(k, k, <<Top(conf).prev.args[1]>>)

C6_OperandStep ==
    \A i \in 1..Len(stack) :
       (/\ i <= Len(stack')
        /\ IsPendingComparison(stack[i].prev)
        /\ stack'[i].prev # stack[i].prev)
         => LET p == stack[i].prev
                q == stack'[i].prev
            IN  /\ p.scope \in ComparisonCtors
                /\ q.kind = "Complete"
                /\ Len(q.args[1]) = 3
                /\ q.args[1] = Binary(p.scope, p.args[1], q.args[1][3])

WholeSides ==
    {<<"a">>, <<"a", " ", "b">>, kwRequest \o <<".", "p">>,
     <<"(", "a", ">", "1", ")">>}

SideExpr(x) ==
    IF x = kwRequest \o <<".", "p">> THEN SelectField(Request, <<"p">>)
    ELSE RootExpr(x)

C6_ComparisonOfSides ==
    Done =>
      \A l \in WholeSides, op \in ComparisonLexemes :
         \A r \in {<<"a">>, <<"(", "a", ">", "1", ")">>} :
            input = Interpolate(l \o op \o r)
              => result = Ok(Binary(CtorOf(op), SideExpr(l), SideExpr(r)))

\* The right side a conditional: the If arm (334-359) builds its Condition
\* from nothing and never reads prev, so the pending comparison is gone.
C6_ComparisonOfCond ==
    Done =>
      \A op \in ComparisonLexemes :
         input = Interpolate(<<"a">> \o op \o sp
                               \o IfThenElse(<<"a">>, <<"b">>, <<"c">>))
           => result = Ok(Binary(CtorOf(op), Literal(<<"a">>),
                                 Cond(Literal(<<"a">>), Literal(<<"b">>),
                                      Literal(<<"c">>))))

\* C6: every comparison token read with prev = Complete(lhs) leaves its
\* own InComplete, which changes only into Complete(Op(lhs, rhs)); the parse
\* of lhs op rhs is Op(lhs, rhs), also when rhs is a conditional.
C6_ComparisonBuilds ==
    /\ [][C6_OperatorStep /\ C6_OperandStep]_vars
    /\ [](C6_ComparisonOfSides /\ C6_ComparisonOfCond)

\* a > if a then b else c is parsed as the conditional alone.
C6_Witness ==
    /\ Done
    /\ \E op \in ComparisonLexemes :
          input = Interpolate(<<"a">> \o op \o sp
                                \o IfThenElse(<<"a">>, <<"b">>, <<"c">>))
    /\ result = Ok(Cond(Literal(<<"a">>), Literal(<<"b">>), Literal(<<"c">>)))

\* C7: a comparison token read when prev is not Complete ends the parse in
\* an error: with prev Empty the error of that operator, "... is applied to a
\* non existing left expression", with prev InComplete "Cannot apply greater
\* than on top of an incomplete expression".
NoLeftExpression(k) ==
    CASE k = "GreaterThanOrEqualTo" ->
           "GreaterThanOrEqualTo (>=) is applied to a non existing left expression"
      [] k = "GreaterThan" ->
           "GreaterThan (>) is applied to a non existing left expression"
      [] k = "LessThan" ->
           "LessThan (<) is applied to a non existing left expression"
      [] k = "LessThanOrEqualTo" ->
           "LessThanOrEqualTo (<=)  is applied to a non existing left expression"
      [] k = "EqualTo" ->
           "EqualTo (=) is applied to a non existing left expression"

OnIncomplete ==
    Err("Cannot apply greater than on top of an incomplete expression", <<>>)

C7_OperatorStep ==
    \A k \in ComparisonCtors :
       Reads(k) /\ Top(conf).prev.kind # "Complete"
         => /\ stack' = <<>>
            /\ result' = IF Top(conf).prev.kind = "Empty"
                         THEN Err(NoLeftExpression(k), <<>>)
                         ELSE OnIncomplete

C7_ErrorOfSides ==
    Done =>
      \A op \in ComparisonLexemes, r \in Sides :
         /\ input = Interpolate(op \o r)
              => result = Err(NoLeftExpression(CtorOf(op)), <<>>)
         /\ input = Interpolate(<<"1", ">", " ">> \o op \o r)
              => result = OnIncomplete

C7_ComparisonNeedsComplete ==
    /\ [][C7_OperatorStep]_vars
    /\ []C7_ErrorOfSides

C7_Witness ==
    /\ Done
    /\ input = Interpolate(<<"1", ">", " ", "<", "=", "a">>)
    /\ result = OnIncomplete

\* C8 as stated: an interpolation with nothing before it parses to its inner
\* expression, and with literal text L before it to
\* Concat([Literal(L), inner]); L is any text that holds no `}`.
C8_LiteralThenInner ==
    Done =>
      \A b \in Befores \ {<<"}">>}, m \in Bodies :
         (input = b \o Interpolate(m) /\ Parses(m))
           => result = IF b = <<>> THEN Ok(ParseCode(m).val)
                       ELSE Ok(Concat(<<Literal(b), ParseCode(m).val>>))

\* C8 amended: the region of `${`, parsed in Code from Empty, is joined by
\* continue_build to the state accumulated from the text before it: the
\* result is the inner expression when that state is Empty (no text, or `}`
\* only), and Concat([acc, inner]) when it is Complete(acc), acc being
\* Literal(L) when L is one token.
Accumulated(b) ==
    CASE b = <<>> -> Empty
      [] b = <<"}">> -> Empty
      [] b = <<"w", "-">> -> Complete(Literal(<<"w", "-">>))
      [] b = kwRequest -> Complete(Literal(kwRequest))
      [] b = <<"a", " ", "b">> ->
           Complete(Concat(<<Concat(<<Literal(<<"a">>), Literal(<<" ">>)>>),
                             Literal(<<"b">>)>>))

C8_RegionStep ==
    (Reads("InterpolationStart") /\ Len(stack') > Len(stack))
      => /\ Len(stack') = Len(stack) + 1
         /\ stack'[Len(stack')].ctx = "Code"
         /\ stack'[Len(stack')].prev = Empty
         /\ stack'[Len(stack)].prev = Top(conf).prev

C8_JoinedToAccumulated ==
    Done =>
      \A b \in Befores, m \in Bodies :
         (input = b \o Interpolate(m) /\ Parses(m))
           => result = IF IsEmpty(Accumulated(b)) THEN Ok(ParseCode(m).val)
                       ELSE Ok(Concat(<<Accumulated(b).args[1],
                                        ParseCode(m).val>>))

C8_InterpolationJoins ==
    /\ [][C8_RegionStep]_vars
    /\ []C8_JoinedToAccumulated

C8_Witness ==
    /\ Done
    /\ input = <<"w", "-">> \o Interpolate(kwRequest \o <<".", "p", ".", "u", "-", "i">>)
    /\ result = Ok(Concat(<<Literal(<<"w", "-">>),
                            SelectField(SelectField(Request, <<"p">>),
                                        <<"u", "-", "i">>)>>))

\* C9: text outside every interpolation contributes Literal nodes only: a
\* token read in literal mode, other than `${`, leaves prev as it is or
\* joins Literal(its text) to it, so an input with no `${` gives no Cond,
\* comparison, SelectField or SelectIndex node, and the text after an
\* interpolation is joined to it literal by literal.
HasInterpolation(s) ==
    \E i \in 1..Len(s) : IsPrefixAt(<<"$", "{">>, s, i)

RECURSIVE OnlyLiterals(_)
OnlyLiterals(e) ==
    CASE e[1] = "Literal" -> TRUE
      [] e[1] = "Concat" -> \A i \in 1..Len(e[2]) : OnlyLiterals(e[2][i])
      [] OTHER -> FALSE

C9_LiteralStep ==
    (/\ Len(stack) = 1 /\ Len(stack') = 1
     /\ stack[1].ctx = "Literal"
     /\ stack[1].idx < Len(stack[1].toks))
      => LET t == stack[1].toks[stack[1].idx + 1]
         IN  \/ stack'[1].prev = stack[1].prev
             \/ stack'[1].prev =
                  ContinueBuild(stack[1].prev, Literal(TokenToString(t)))

RECURSIVE JoinLiterals(_, _)
JoinLiterals(p, texts) ==
    IF texts = <<>> THEN p
    ELSE JoinLiterals(ContinueBuild(p, Literal(Head(texts))), Tail(texts))

AfterTexts(a) ==
    CASE a = <<>> -> <<>>
      [] a = <<">", "2">> -> << <<">">>, <<"2">> >>
      [] a = sp \o kwIf -> <<sp, kwIf>>

C9_NoCodeWithoutRegion ==
    (Done /\ ~HasInterpolation(input) /\ result.kind = "Ok")
      => OnlyLiterals(result.val)

C9_TextAfterRegion ==
    Done =>
      \A m \in Bodies, a \in {<<>>, <<">", "2">>, sp \o kwIf} :
         (input = Interpolate(m) \o a /\ Parses(m))
           => result = Ok(JoinLiterals(Complete(ParseCode(m).val),
                                       AfterTexts(a)).args[1])

C9_LiteralOutsideRegions ==
    /\ [][C9_LiteralStep]_vars
    /\ [](C9_NoCodeWithoutRegion /\ C9_TextAfterRegion)

C9_Witness ==
    /\ Done
    /\ input = IfThenElse(<<"h">>, <<"f">>, <<"b">>)
    /\ result.kind = "Ok"
    /\ OnlyLiterals(result.val)
    /\ Len(result.val[2]) = 2

\* C10 as stated: every input with no `${` parses, to one Literal holding
\* the whole input or to a left-leaning Concat of Literals whose texts in
\* order make up the input.
RECURSIVE IsLiteralChain(_)
IsLiteralChain(e) ==
    CASE e[1] = "Literal" -> TRUE
      [] e[1] = "Concat" ->
           /\ Len(e[2]) = 2
           /\ IsLiteralChain(e[2][1])
           /\ e[2][2][1] = "Literal"
      [] OTHER -> FALSE

RECURSIVE TextOf(_)
TextOf(e) ==
    IF e[1] = "Literal" THEN e[2] ELSE TextOf(e[2][1]) \o TextOf(e[2][2])

C10_LiteralRoundTrip ==
    (Done /\ ~HasInterpolation(input))
      => /\ result.kind = "Ok"
         /\ IsLiteralChain(result.val)
         /\ TextOf(result.val) = input

\* C10 amended: for an input with no `${`, `}` is passed over and the rest
\* is kept: parsing fails with "failed expression. Internal logical error"
\* exactly when the input holds nothing but `}` (the empty input included),
\* and otherwise gives one Literal or a left-leaning Concat of Literals whose
\* texts in order make up the input without its `}`.
WithoutClosedCurlyBrace(s) == SelectSeq(s, LAMBDA ch : ch # "}")

C10_RoundTripButClosedCurlyBrace ==
    (Done /\ ~HasInterpolation(input))
      => IF WithoutClosedCurlyBrace(input) = <<>>
         THEN result = FailedExpression
         ELSE /\ result.kind = "Ok"
              /\ IsLiteralChain(result.val)
              /\ TextOf(result.val) = WithoutClosedCurlyBrace(input)

C10_Witness ==
    /\ Done
    /\ input = <<"}", ")">>
    /\ result = Ok(Literal(<<")">>))

\* C11: in code, a `then` or an `else` read when prev is not
\* InComplete(Condition, _) (prev Empty, Complete, or InComplete of a
\* comparison) ends the parse in the error "then is a keyword and should be
\* part of a if else condition logic" (resp. "else ..."); no expression is
\* returned.
StrayKeyword(k) ==
    IF k = "Then"
    THEN Err("then is a keyword and should be part of a if else condition logic",
             <<>>)
    ELSE Err("else is a keyword and should be part of a if else condition logic",
             <<>>)

C11_KeywordStep ==
    \A k \in {"Then", "Else"} :
       Reads(k) /\ ~IsPendingCondition(Top(conf).prev)
         => stack' = <<>> /\ result' = StrayKeyword(k)

\* Each stray keyword with its error.
ErrorOfStray ==
    {<<Interpolate(l \o sp \o kwThen \o r), StrayKeyword("Then")>> :
        l \in StrayLefts, r \in {<<>>, <<" ", "a">>}}
      \cup {<<Interpolate(l \o sp \o kwElse \o r), StrayKeyword("Else")>> :
               l \in StrayLefts, r \in {<<>>, <<" ", "a">>}}

C11_StrayKeywordFails ==
    /\ [][C11_KeywordStep]_vars
    /\ [](Done => \A c \in ErrorOfStray : input = c[1] => result = c[2])

\* `else` met while a comparison waits for its right side.
C11_Witness ==
    /\ Done
    /\ input = Interpolate(<<"1", ">", " ", " ">> \o kwElse \o <<" ", "a">>)
    /\ result = StrayKeyword("Else")

\* C12: in code, a `.` selects a field only when the next token that is not
\* whitespace is a RawString and prev is Complete.  When the stream ends the
\* error is "Expecting a field after dot"; when any other token follows
\* (a keyword included) it is "Expecting a valid field selection after dot
\* instead of <token>."; when a RawString follows and prev is Empty or
\* InComplete it is "Invalid token field <field>. ...".  Whitespace between
\* the dot and the field is skipped.
NoField == Err("Expecting a field after dot", <<>>)
NotAField(text) ==
    Err("Expecting a valid field selection after dot instead of {}.", text)
InvalidField(text) ==
    Err("Invalid token field {}. Make sure expression format is correct", text)

FieldNames == {<<"p">>, <<"1">>}

DotLeftExpr(l) == IF l = kwRequest THEN Request ELSE Literal(l)

DotResult(l, n) ==
    IF n = <<>> THEN NoField
    ELSE IF n \notin FieldNames THEN NotAField(n)
    ELSE IF l \in {<<"a">>, kwRequest} THEN Ok(SelectField(DotLeftExpr(l), n))
    ELSE InvalidField(n)

ResultOfDots ==
    {<<Interpolate(l \o <<".">> \o g \o n), DotResult(l, n)>> :
        l \in DotLefts, g \in DotGaps, n \in DotNexts}

C12_DotStep ==
    Reads("Dot") =>
      \/ /\ stack' = <<>>
         /\ result'.kind = "Err"
         /\ result'.val[1] \in {NoField.val[1], NotAField(<<>>).val[1],
                                InvalidField(<<>>).val[1]}
      \/ /\ Len(stack') = Len(stack)
         /\ Top(conf).prev.kind = "Complete"
         /\ LET q == stack'[Len(stack)]
            IN  /\ q.toks[q.idx].kind = "RawString"
                /\ q.prev = Complete(SelectField(Top(conf).prev.args[1],
                                                 q.toks[q.idx].text))

C12_DotNeedsFieldAndComplete ==
    /\ [][C12_DotStep]_vars
    /\ [](Done => \A c \in ResultOfDots : input = c[1] => result = c[2])

\* `request. if`: a keyword where the field should be.
C12_Witness ==
    /\ Done
    /\ input = Interpolate(kwRequest \o <<".", " ">> \o kwIf)
    /\ result = NotAField(kwIf)

\* C13: in code, a `[` gives SelectIndex(e, n) only when prev is Complete(e),
\* a matching `]` exists and the text between them, trimmed, is a nonnegative
\* integer n.  With prev not Complete the error is "Invalid token [", whether
\* or not a `]` follows; with no matching `]` it is "Expecting a valid index
\* inside square brackets near to field"; with other text it is "Invalid
\* index <text> obtained within square brackets".
InvalidBracket == Err("Invalid token [", <<>>)
NoIndex ==
    Err("Expecting a valid index inside square brackets near to field", <<>>)
InvalidIndex(text) ==
    Err("Invalid index {} obtained within square brackets", text)

IndexValue(x) ==
    CASE x = <<"[", "0", "]">> -> 0
      [] x = <<"[", " ", "1", "2", " ", "]">> -> 12
      [] x = <<"[", "\n", "7", "]">> -> 7
      [] x = <<"[", "+", "1", "]">> -> 1
      [] OTHER -> -1

Unclosed == {<<"[">>, <<"[", "0">>, <<"[", "0", ")">>, <<"[", "[", "0", "]">>}

IndexLeftExpr(l) == IF l = kwRequest THEN Request ELSE Literal(<<"a">>)

IndexResult(l, x) ==
    IF l \in {<<>>, <<"a", ">">>} THEN InvalidBracket
    ELSE IF x \in Unclosed THEN NoIndex
    ELSE IF IndexValue(x) >= 0
    THEN Ok(SelectIndex(IndexLeftExpr(l), IndexValue(x)))
    ELSE InvalidIndex(SubSeq(x, 2, Len(x) - 1))

ResultOfIndexes ==
    {<<Interpolate(l \o x), IndexResult(l, x)>> :
        l \in IndexLefts, x \in IndexTexts}

C13_BracketStep ==
    Reads("OpenSquareBracket") =>
      IF Top(conf).prev.kind # "Complete"
      THEN stack' = <<>> /\ result' = InvalidBracket
      ELSE \/ /\ stack' = <<>>
              /\ result'.kind = "Err"
              /\ result'.val[1] \in {NoIndex.val[1], InvalidIndex(<<>>).val[1]}
           \/ /\ Len(stack') = Len(stack)
              /\ LET q == stack'[Len(stack)].prev
                 IN  /\ q.kind = "Complete"
                     /\ q.args[1][1] = "SelectIndex"
                     /\ q.args[1][2] = Top(conf).prev.args[1]
                     /\ q.args[1][3] \in Nat

C13_IndexNeedsCompleteAndInteger ==
    /\ [][C13_BracketStep]_vars
    /\ [](Done => \A c \in ResultOfIndexes : input = c[1] => result = c[2])

\* `a[ 12 ]`: the index is trimmed.
C13_Witness ==
    /\ Done
    /\ input = Interpolate(<<"a", "[", " ", "1", "2", " ", "]">>)
    /\ result = Ok(SelectIndex(Literal(<<"a">>), 12))

\* C14: an opening token without its matching close (`${` without `}`, `(`
\* without `)`, `if` without a `then` at its depth, and likewise `then`
\* without `else`) makes the capture return none and the parse end in
\* "Unable to find a matching closing symbol <close> corresponding to
\* <open>", whatever prev was; no expression is returned.
NoClosing(until, from) ==
    Err("Unable to find a matching closing symbol", <<until, from>>)

ClosingOf(k) ==
    CASE k = "InterpolationStart" -> "ClosedCurlyBrace"
      [] k = "OpenParen" -> "CloseParen"
      [] k = "If" -> "Then"
      [] k = "Then" -> "Else"

C14_OpenStep ==
    \A k \in {"InterpolationStart", "OpenParen", "If"} :
       Reads(k) =>
         \/ Len(stack') = Len(stack) + 1 /\ result' = NoResult
         \/ stack' = <<>> /\ result' = NoClosing(ClosingOf(k), k)

ErrorOfUnmatched ==
    {<<Interpolate(l \o sp \o x), NoClosing("CloseParen", "OpenParen")>> :
        l \in OpenLefts, x \in UnclosedParens}
      \cup {<<Interpolate(l \o sp \o x), NoClosing("Then", "If")>> :
               l \in OpenLefts, x \in UnclosedIfs}
      \cup {<<Interpolate(l \o sp \o x), NoClosing("Else", "Then")>> :
               l \in OpenLefts, x \in UnclosedThens}
      \cup {<<Interpolate(<<"(">> \o l \o sp \o x \o <<")", "}">>),
              NoClosing("ClosedCurlyBrace", "InterpolationStart")>> :
               l \in OpenLefts, x \in UnclosedRegions}
      \cup {<<b \o x, NoClosing("ClosedCurlyBrace", "InterpolationStart")>> :
               b \in Befores, x \in UnclosedRegions}

C14_UnmatchedFails ==
    /\ [][C14_OpenStep]_vars
    /\ [](Done => \A c \in ErrorOfUnmatched : input = c[1] => result = c[2])

\* `(` with a pending comparison before it and no `)`.
C14_Witness ==
    /\ Done
    /\ input = Interpolate(<<"a", ">", " ", "(", "a", "]">>)
    /\ result = NoClosing("CloseParen", "OpenParen")

\* C15: the first error ends the whole parse.  When the parse of a captured
\* part (a region, a bracketed part, a predicate, a then-branch, an
\* else-branch) fails, parse returns that error as it is: every level is
\* left at once, the levels around the part read no further token, and no
\* expression is returned.
BadError(x) ==
    CASE x = <<"a", " ", ">">> -> FailedExpression
      [] x = <<".", "p">> -> InvalidField(<<"p">>)
      [] x = <<"[", "0", "]">> -> InvalidBracket
      [] x = <<">">> -> Err(NoLeftExpression("GreaterThan"), <<>>)

FirstError(x, y, z) ==
    IF x \in BadParts THEN BadError(x)
    ELSE IF y \in BadParts THEN BadError(y)
    ELSE BadError(z)

ErrorOfParts ==
    {<<b \o Interpolate(x) \o a, BadError(x)>> :
        b \in {<<>>, <<"w", "-">>}, x \in BadParts, a \in AbortAfters}
      \cup {<<Interpolate(l \o <<"(">> \o x \o <<")">> \o r), BadError(x)>> :
               l \in {<<>>, <<"a", " ">>}, x \in BadParts,
               r \in {<<>>, sp \o kwThen, <<".">>}}
      \cup {<<Interpolate(IfThenElse(c[1], c[2], c[3])),
              FirstError(c[1], c[2], c[3])>> :
               c \in (Parts \X Parts \X Parts) \ {<<<<"a">>, <<"a">>, <<"a">>>>}}

\* A step inside a part leaves the levels around it as they are; an error
\* leaves no level.
C15_AbortStep ==
    /\ result'.kind = "Err" => stack' = <<>>
    /\ Len(stack') >= Len(stack)
         => \A i \in 1..(Len(stack) - 1) : stack'[i] = stack[i]

C15_FirstErrorAborts ==
    /\ [][C15_AbortStep]_vars
    /\ [](Done => \A c \in ErrorOfParts : input = c[1] => result = c[2])

\* The then-branch fails; the else-branch, which would fail too, is not read.
C15_Witness ==
    /\ Done
    /\ input = Interpolate(IfThenElse(<<"a">>, <<".", "p">>, <<"[", "0", "]">>))
    /\ result = InvalidField(<<"p">>)

\* C17: for every input parse ends, in an expression or in an error.  Each
\* step that reads a token moves the cursor of its activation forward by one
\* token at least; no cursor moves back, so no token is delivered twice; the
\* stream of a part is shorter than the stream it was captured from.  The
\* tokens still to be read at all levels, counted twice, plus the number of
\* levels, fall with every step, and a running parse can always take a step:
\* after that many steps at most it has ended.
RECURSIVE Remaining(_)
Remaining(stk) ==
    IF stk = <<>> THEN 0
    ELSE 2 * (Len(Head(stk).toks) - Head(stk).idx) + 1 + Remaining(Tail(stk))

C17_CursorStep ==
    /\ \A i \in 1..Len(stack) :
          i <= Len(stack')
            => /\ stack'[i].toks = stack[i].toks
               /\ stack'[i].idx >= stack[i].idx
               /\ stack'[i].idx <= Len(stack[i].toks)
    /\ (Acquire(Top(conf)).some /\ Len(stack') >= Len(stack))
         => /\ Acquire(Top(conf)).idx > Top(conf).idx
            /\ stack'[Len(stack)].idx >= Acquire(Top(conf)).idx
    /\ Remaining(stack') < Remaining(stack)

C17_PartIsShorter ==
    \A i \in 2..Len(stack) : Len(stack[i].toks) < Len(stack[i - 1].toks)

\* The tokens go matches on; each has its arm.
Matched ==
    {"RawString", "Request", "WorkerResponse", "InterpolationStart",
     "OpenParen", "Dot", "OpenSquareBracket", "If", "Then", "Else"}
      \cup ComparisonCtors \cup PassedOver

C17_Outcome ==
    /\ Running => (AtEnd \/ \E k \in Matched : Reads(k))
    /\ Running => Remaining(Step(conf).stack) < Remaining(stack)
    /\ Running => result = NoResult
    /\ ~Running => result.kind \in {"Ok", "Err"}

C17_Terminates ==
    /\ [][C17_CursorStep]_vars
    /\ [](C17_PartIsShorter /\ C17_Outcome)

\* Three levels deep: a conditional in a bracket in a region.
C17_Witness ==
    /\ Len(stack) = 4
    /\ stack[4].idx > 0
    /\ Len(stack[4].toks) < Len(stack[3].toks)

\* C18: the predicate of an `if` runs to the `then` at its own depth: a whole
\* `if .. then .. else ..` in brackets inside the predicate does not end it
\* with its `then`, so `if (if x then 1 else 0) > 0 then y.z else 0` is
\* Cond(GreaterThan(Cond(x, 1, 0), 0), SelectField(y, z), 0).
InnerExpr(x) == Cond(AtomExpr(x), Literal(<<"1">>), Literal(<<"0">>))

PredicateExpr(p, x) ==
    CASE p = Inner(x) -> InnerExpr(x)
      [] p = <<"0", " ", "<", " ">> \o Inner(x) ->
           Binary("LessThan", Literal(<<"0">>), InnerExpr(x))
      [] OTHER -> Binary("GreaterThan", InnerExpr(x), Literal(<<"0">>))

BranchExpr(t) ==
    IF t = <<"y", ".", "z">> THEN SelectField(Literal(<<"y">>), <<"z">>)
    ELSE InnerExpr(<<"a">>)

OuterExpr(p, x, t) == Cond(PredicateExpr(p, x), BranchExpr(t), Literal(<<"0">>))

CondOfNested ==
    UNION {UNION {{<<Interpolate(IfThenElse(p, t, <<"0">>)),
                     Ok(OuterExpr(p, x, t))>>,
                   <<<<"f", "-">> \o Interpolate(IfThenElse(p, t, <<"0">>)),
                     Ok(Concat(<<Literal(<<"f", "-">>), OuterExpr(p, x, t)>>))>>} :
                     p \in NestedPredicates(x),
                     t \in {<<"y", ".", "z">>, Inner(<<"a">>)}} :
              x \in Atoms}

C18_PredicateToMatchingThen ==
    Done => \A c \in CondOfNested : input = c[1] => result = c[2]

C18_Witness ==
    /\ Done
    /\ input = Interpolate(IfThenElse(Inner(<<"a">>) \o <<" ", ">", " ", "0">>,
                                      <<"y", ".", "z">>, <<"0">>))
    /\ result = Ok(Cond(Binary("GreaterThan",
                               Cond(Literal(<<"a">>), Literal(<<"1">>),
                                    Literal(<<"0">>)),
                               Literal(<<"0">>)),
                        SelectField(Literal(<<"y">>), <<"z">>),
                        Literal(<<"0">>)))

\* C19: in code, a bracketed part and a region are each parsed on their own
\* from Empty and handed to the level around them as one operand: `(a == 1)`
\* as predicate is EqualTo(a, 1), `${x} > ${y}` is GreaterThan of the parses
\* of x and of y, `(a > b) == (c > d)` is
\* EqualTo(GreaterThan(a, b), GreaterThan(c, d)).
UnitExpr(u) ==
    CASE u = <<"(", "a", ">", "b", ")">> ->
           Binary("GreaterThan", Literal(<<"a">>), Literal(<<"b">>))
      [] u = <<"(", "c", " ", "d", ")">> ->
           Concat(<<Literal(<<"c">>), Literal(<<"d">>)>>)
      [] u = <<"(", "a", "=", "=", "1", ")">> ->
           Binary("EqualTo", Literal(<<"a">>), Literal(<<"1">>))
      [] u = <<"$", "{", "x", "}">> -> Literal(<<"x">>)
      [] u = <<"$", "{">> \o kwRequest \o <<".", "p", "}">> ->
           SelectField(Request, <<"p">>)

ResultOfUnits ==
    {<<Interpolate(u \o g \o op \o g \o v),
       Ok(Binary(CtorOf(op), UnitExpr(u), UnitExpr(v)))>> :
        u \in Units, v \in Units, g \in {<<>>, sp},
        op \in {<<">">>, <<"=", "=">>}}
      \cup {<<Interpolate(IfThenElse(u, v, <<"0">>)),
              Ok(Cond(UnitExpr(u), UnitExpr(v), Literal(<<"0">>)))>> :
               u \in Units, v \in Units}
      \cup {<<Interpolate(u), Ok(UnitExpr(u))>> : u \in Units}
      \cup {<<Interpolate(<<"a", " ">> \o u),
              Ok(Concat(<<Literal(<<"a">>), UnitExpr(u)>>))>> : u \in Units}

C19_UnitStep ==
    \A k \in {"OpenParen", "InterpolationStart"} :
       (Reads(k) /\ Top(conf).ctx = "Code" /\ Len(stack') > Len(stack))
         => /\ Len(stack') = Len(stack) + 1
            /\ stack'[Len(stack')].ctx = "Code"
            /\ stack'[Len(stack')].prev = Empty
            /\ stack'[Len(stack')].idx = 0
            /\ stack'[Len(stack)].prev = Top(conf).prev

C19_UnitIsOneOperand ==
    /\ [][C19_UnitStep]_vars
    /\ [](Done => \A c \in ResultOfUnits : input = c[1] => result = c[2])

C19_Witness ==
    /\ Done
    /\ input = Interpolate(<<"(", "a", ">", "b", ")", " ", "=", "=", " ",
                             "(", "c", " ", "d", ")">>)
    /\ result = Ok(Binary("EqualTo",
                          Binary("GreaterThan", Literal(<<"a">>), Literal(<<"b">>)),
                          Concat(<<Literal(<<"c">>), Literal(<<"d">>)>>)))

\* C20: whitespace is insignificant in code.  Two texts of code whose tokens
\* are the same once Space and NewLine are deleted parse to the same
\* expression, or both to an error: `${${a}>${b}}` as `${${a} > ${b}}`,
\* `if(a)then 1 else 0 ` as `if ( a ) then 1 else 0`.
NonEmptyTokens(toks) == SelectSeq(toks, LAMBDA t : ~IsEmptyToken(t))

SameOutcome(r, q) ==
    /\ r.kind = q.kind
    /\ r.kind = "Ok" => r.val = q.val

\* One space in every gap.
Plain(ph) == Spaced(ph, [i \in 1..(Len(ph) + 1) |-> sp], 1)

\* Each text with the tokens of a phrase written plainly, and the outcome of
\* the plain text.
OutcomeOfSpaced ==
    UNION {{<<Interpolate(Spaced(ph, g, 1)), Parse(Interpolate(Plain(ph)))>> :
               g \in {h \in GapsOf(ph) :
                         NonEmptyTokens(Tokenise(Spaced(ph, h, 1)))
                           = NonEmptyTokens(Tokenise(Plain(ph)))}} :
              ph \in Phrases}

C20_WhitespaceInsignificant ==
    Done => \A c \in OutcomeOfSpaced : input = c[1] => SameOutcome(result, c[2])

\* The region of expression_with_predicate000, without the spaces of
\* expression_with_predicate1.
C20_Witness ==
    /\ Done
    /\ input = Interpolate(<<"$", "{", "a", "}", ">", "$", "{", "b", "}">>)
    /\ result = Ok(Binary("GreaterThan", Literal(<<"a">>), Literal(<<"b">>)))
    /\ result = Parse(Interpolate(<<" ", "$", "{", " ", "a", " ", "}", " ", ">",
                                    " ", "$", "{", " ", "b", " ", "}", " ">>))

\* C21: in every AST returned by parse, the subject of every SelectField and
\* every SelectIndex is not a Concat node (and its own selections obey the
\* same rule).
IsSelection(e) == e[1] \in {"SelectField", "SelectIndex"}

RECURSIVE SubjectsAreNotConcat(_)
SubjectsAreNotConcat(e) ==
    CASE e[1] \in {"Literal", "Request", "WorkerResponse"} -> TRUE
      [] IsSelection(e) ->
           e[2][1] # "Concat" /\ SubjectsAreNotConcat(e[2])
      [] e[1] = "Concat" ->
           \A i \in 1..Len(e[2]) : SubjectsAreNotConcat(e[2][i])
      [] OTHER ->
           \A i \in 2..Len(e) : SubjectsAreNotConcat(e[i])

C21_SubjectIsNotConcat ==
    (Done /\ result.kind = "Ok") => SubjectsAreNotConcat(result.val)

\* a b.p selects the field of the two operands joined: the Dot arm (282-290)
\* takes the whole Complete prev as the subject.
C21_Witness ==
    /\ Done
    /\ input = Interpolate(<<"a", " ", "b", ".", "p">>)
    /\ result = Ok(SelectField(Concat(<<Literal(<<"a">>), Literal(<<"b">>)>>),
                               <<"p">>))

\* C22: the operands of a comparison are terms: the selections after the
\* right operand's primary belong to the right operand, so l op request.p
\* is Op(l, SelectField(Request, p)), never a selection of the comparison.
C22_OperandsAreTerms ==
    Done =>
      \A l \in WholeSides, op \in ComparisonLexemes :
         input = Interpolate(l \o op \o kwRequest \o <<".", "p">>)
           => result = Ok(Binary(CtorOf(op), SideExpr(l),
                                 SelectField(Request, <<"p">>)))

\* a>request.p is the field p of the comparison a > request: the operand
\* request completes the comparison (176-196) before the Dot arm (282-290)
\* wraps the Complete prev.
C22_Witness ==
    /\ Done
    /\ input = Interpolate(<<"a", ">">> \o kwRequest \o <<".", "p">>)
    /\ result = Ok(SelectField(Binary("GreaterThan", Literal(<<"a">>), Request),
                               <<"p">>))

\* C23: the tokenizer is total and matches the longest punctuation: >=, <=
\* and == are one token each, a lone = stays in the raw text around it, and
\* hyphens, underscores and digits stay inside one maximal RawString.
TokenKinds ==
    {"RawString", "Request", "WorkerResponse", "InterpolationStart",
     "OpenParen", "CloseParen", "OpenSquareBracket", "ClosedSquareBracket",
     "ClosedCurlyBrace", "Dot", "If", "Then", "Else", "EqualTo", "GreaterThan",
     "LessThan", "GreaterThanOrEqualTo", "LessThanOrEqualTo", "Space",
     "NewLine"}

StartsWithEquals(t) ==
    \/ t.kind = "EqualTo"
    \/ t.kind = "RawString" /\ t.text # <<>> /\ Head(t.text) = "="

\* No character of a RawString could have been a token of its own, and no
\* two characters of it a two-character token.
IsRawText(s) ==
    /\ s # <<>>
    /\ \A i \in 1..Len(s) : SingleCharKind(s[i]) = "None"
    /\ \A i \in 1..(Len(s) - 1) :
          <<s[i], s[i + 1]>> \notin {<<"=", "=">>, <<"$", "{">>}

WellScanned(toks) ==
    /\ \A i \in 1..Len(toks) :
          /\ toks[i].kind \in TokenKinds
          /\ toks[i].kind = "RawString" => IsRawText(toks[i].text)
          /\ toks[i].kind # "RawString" => toks[i].text = <<>>
    /\ \A i \in 1..(Len(toks) - 1) :
          /\ toks[i].kind \in {"GreaterThan", "LessThan"}
               => ~StartsWithEquals(toks[i + 1])
          /\ ~(toks[i].kind = "RawString" /\ toks[i + 1].kind = "RawString")

\* Every character of the input is in exactly one token, in order.
C23_Lossless ==
    Running =>
      Flatten([i \in 1..Len(stack[1].toks) |->
                  TokenToString(stack[1].toks[i])]) = input

C23_LongestMatch == \A i \in 1..Len(stack) : WellScanned(stack[i].toks)

LexExpr(l, op, r) ==
    IF op = <<".">> THEN SelectField(Literal(l), r)
    ELSE Binary(CtorOf(op), Literal(l), Literal(r))

ResultOfLex ==
    {<<Interpolate(l \o op \o r), Ok(LexExpr(l, op, r))>> :
        l \in {<<"a">>, <<"1">>, <<"u", "-", "i">>, <<"u", "_", "1">>,
               <<"a", "=", "b">>},
        op \in ComparisonLexemes \cup {<<".">>},
        r \in {<<"a">>, <<"1">>, <<"u", "-", "i">>, <<"u", "_", "1">>,
               <<"a", "=", "b">>}}
      \cup {<<Interpolate(kwRequest \o <<".", "p", ".", "u", "-", "i">>),
              Ok(SelectField(SelectField(Request, <<"p">>),
                             <<"u", "-", "i">>))>>}

C23_ParseOfLex ==
    Done => \A c \in ResultOfLex : input = c[1] => result = c[2]

C23_TokenizerLongestMatch ==
    C23_Lossless /\ C23_LongestMatch /\ C23_ParseOfLex

C23_Witness ==
    /\ Done
    /\ input = Interpolate(<<"1", ">", "=", "u", "-", "i">>)
    /\ result = Ok(Binary("GreaterThanOrEqualTo", Literal(<<"1">>),
                          Literal(<<"u", "-", "i">>)))

\* C24: a `then` read with prev = InComplete(Condition, _) feeds the region
\* it captures into the then-branch slot only: the builder holds the
\* predicate before, the predicate and the then-branch after, and is still
\* InComplete(Condition, _); no `then` completes a Cond.
CountOf(k, toks, from, to) ==
    Cardinality({j \in from..to : toks[j].kind = k})

\* toks[from..to] closes every `then` it opens and no other.
ThenElseBalanced(toks, from, to) ==
    /\ CountOf("Then", toks, from, to) = CountOf("Else", toks, from, to)
    /\ \A j \in from..to :
          CountOf("Else", toks, from, j) <= CountOf("Then", toks, from, j)

SurfaceText(toks) == TextOfTokens(toks, 1, Len(toks))

\* The activation waits for the parse of its then-branch: its builder is
\* pending and its cursor rests at the `else` that closed the capture.
AwaitsThenBranch(i) ==
    /\ i < Len(stack)
    /\ IsPendingCondition(stack[i].prev)
    /\ stack[i].idx < Len(stack[i].toks)
    /\ stack[i].toks[stack[i].idx + 1].kind = "Else"

C24_ThenStep ==
    (Reads("Then") /\ IsPendingCondition(Top(conf).prev))
      => LET n == Len(stack)
             f == Top(conf)
             at == Acquire(f).idx
         IN  \/ stack' = <<>> /\ result'.kind = "Err"
             \/ /\ Len(stack') = n + 1
                /\ stack'[n].prev = f.prev
                /\ Len(f.prev.args) = 1
                /\ stack'[n].idx >= at
                /\ stack'[n].idx < Len(f.toks)
                /\ f.toks[stack'[n].idx + 1].kind = "Else"
                /\ ThenElseBalanced(f.toks, at + 1, stack'[n].idx)
                /\ stack'[n + 1].idx = 0
                /\ stack'[n + 1].ctx = "Code"
                /\ stack'[n + 1].prev = Empty
                /\ SurfaceText(stack'[n + 1].toks)
                     = TextOfTokens(f.toks, at + 1, stack'[n].idx)

C24_BranchStep ==
    \A i \in 1..Len(stack) :
       (AwaitsThenBranch(i) /\ i <= Len(stack') /\ stack'[i].prev # stack[i].prev)
         => /\ Len(stack) = i + 1
            /\ Len(stack') = i
            /\ stack[i + 1].prev.kind = "Complete"
            /\ stack'[i].prev =
                 InComplete("Condition", "Cond",
                            <<stack[i].prev.args[1], stack[i + 1].prev.args[1]>>)

C24_ThenThenFails ==
    Done =>
      \A x \in Branches, y \in Branches, z \in Branches :
         /\ \A t \in {<<>>, sp \o kwElse \o <<" ", "d">>} :
               input = Interpolate(kwIf \o sp \o x \o sp \o kwThen \o sp \o y
                                     \o sp \o kwThen \o sp \o z \o t)
                 => result = Err("Unable to find a matching closing symbol",
                                 <<"Else", "Then">>)
         /\ input = Interpolate(kwIf \o sp \o x \o sp \o kwThen \o sp \o y
                                  \o sp \o kwThen \o sp \o z \o sp \o kwElse
                                  \o <<" ", "d", " ">> \o kwElse \o <<" ", "e">>)
              => result = Err("then is a keyword and should be part of a if else condition logic",
                              <<>>)

C24_ThenFillsThenBranchOnly ==
    /\ [][C24_ThenStep /\ C24_BranchStep]_vars
    /\ [](C24_ThenThenFails
            /\ \A i \in 1..Len(stack) :
                  AwaitsThenBranch(i) => Len(stack[i].prev.args) = 1)

\* The then-branch of if a then request.p else a has been parsed and waits
\* in the builder next to the predicate.
C24_Witness ==
    /\ Len(stack) = 2
    /\ input = Interpolate(IfThenElse(<<"a">>, kwRequest \o <<".", "p">>, <<"a">>))
    /\ stack[2].prev = InComplete("Condition", "Cond",
                                  <<Literal(<<"a">>),
                                    SelectField(Request, <<"p">>)>>)
    /\ Acquire(stack[2]).tok.kind = "Else"

\* C25: an `else` read with prev = InComplete(Condition, _) feeds the parse
\* of the tail into the else-branch slot: the builder holds predicate and
\* then-branch before and is Complete(Cond(p, t, e)) after, e the parse of
\* the tail; a conditional without its then-branch ends in an error.
AwaitsElseBranch(i) ==
    /\ i < Len(stack)
    /\ IsPendingCondition(stack[i].prev)
    /\ stack[i].idx = Len(stack[i].toks)

C25_ElseStep ==
    (Reads("Else") /\ IsPendingCondition(Top(conf).prev))
      => LET n == Len(stack)
             f == Top(conf)
             at == Acquire(f).idx
         IN  /\ Len(stack') = n + 1
             /\ stack'[n].prev = f.prev
             /\ Len(f.prev.args) = 2
             /\ stack'[n].idx = Len(f.toks)
             /\ stack'[n + 1].idx = 0
             /\ stack'[n + 1].ctx = "Code"
             /\ stack'[n + 1].prev = Empty
             /\ SurfaceText(stack'[n + 1].toks)
                  = TextOfTokens(f.toks, at + 1, Len(f.toks))

C25_TailStep ==
    \A i \in 1..Len(stack) :
       (AwaitsElseBranch(i) /\ i <= Len(stack') /\ stack'[i].prev # stack[i].prev)
         => /\ Len(stack) = i + 1
            /\ Len(stack') = i
            /\ stack[i + 1].prev.kind = "Complete"
            /\ stack'[i].prev =
                 Complete(Cond(stack[i].prev.args[1], stack[i].prev.args[2],
                               stack[i + 1].prev.args[1]))

C25_MissingThenBranchFails ==
    Done =>
      \A x \in Branches, z \in Branches :
         /\ \A g \in {sp, <<" ", "\n">>} :
               input = Interpolate(kwIf \o sp \o x \o sp \o kwThen \o g
                                     \o kwElse \o sp \o z)
                 => result = FailedExpression
         /\ \A t \in {<<>>, sp \o kwThen \o <<" ", "d">>} :
               input = Interpolate(kwIf \o sp \o x \o sp \o kwElse \o sp \o z \o t)
                 => result.kind = "Err"

C25_ElseFillsElseBranchOnly ==
    /\ [][C25_ElseStep /\ C25_TailStep]_vars
    /\ [](C25_MissingThenBranchFails
            /\ \A i \in 1..Len(stack) :
                  AwaitsElseBranch(i) => Len(stack[i].prev.args) = 2)

\* The tail of if a then request.p else a has completed the Cond.
C25_Witness ==
    /\ Len(stack) = 2
    /\ input = Interpolate(IfThenElse(<<"a">>, kwRequest \o <<".", "p">>, <<"a">>))
    /\ stack[2].prev = Complete(Cond(Literal(<<"a">>),
                                     SelectField(Request, <<"p">>),
                                     Literal(<<"a">>)))

\* C26: continue_build on Complete(e) with operand x is
\* Complete(Concat([e, x])): every Concat of a returned AST has two
\* children, and n operands in a row form the left-leaning chain
\* Concat([Concat([o1, o2]), o3]) in source order.
RECURSIVE ConcatsAreBinary(_)
ConcatsAreBinary(e) ==
    CASE e[1] \in {"Literal", "Request", "WorkerResponse"} -> TRUE
      [] IsSelection(e) -> ConcatsAreBinary(e[2])
      [] e[1] = "Concat" ->
           /\ Len(e[2]) = 2
           /\ \A i \in 1..Len(e[2]) : ConcatsAreBinary(e[2][i])
      [] OTHER ->
           \A i \in 2..Len(e) : ConcatsAreBinary(e[i])

OperandOfToken(t) ==
    CASE t.kind = "RawString" -> Literal(t.text)
      [] t.kind = "Request" -> Request
      [] t.kind = "WorkerResponse" -> WorkerResponse

\* An operand token read on a Complete state.
C26_OperandStep ==
    \A k \in {"RawString", "Request", "WorkerResponse"} :
       (Reads(k) /\ Top(conf).prev.kind = "Complete")
         => /\ Len(stack') = Len(stack)
            /\ stack'[Len(stack)].prev =
                 Complete(Concat(<<Top(conf).prev.args[1],
                                   OperandOfToken(Acquire(Top(conf)).tok)>>))

\* The expression of a captured region returned to a Complete state.
C26_RegionStep ==
    (/\ Len(stack) > 1
     /\ Len(stack') = Len(stack) - 1
     /\ stack[Len(stack) - 1].prev.kind = "Complete")
      => stack'[Len(stack) - 1].prev =
           Complete(Concat(<<stack[Len(stack) - 1].prev.args[1],
                             Top(conf).prev.args[1]>>))

OperandExpr(o) ==
    CASE o = kwRequest -> Request
      [] o = <<"(", "a", ">", "1", ")">> ->
           Binary("GreaterThan", Literal(<<"a">>), Literal(<<"1">>))
      [] o = <<"$", "{", "b", "}">> -> Literal(<<"b">>)
      [] OTHER -> Literal(o)

RECURSIVE LeftChain(_)
LeftChain(os) ==
    IF Len(os) = 1 THEN OperandExpr(os[1])
    ELSE Concat(<<LeftChain(SubSeq(os, 1, Len(os) - 1)),
                  OperandExpr(os[Len(os)])>>)

ChainOfRuns ==
    {<<Interpolate(RunOf(os)), Ok(LeftChain(os))>> :
        os \in SeqsUpTo(Operands, MaxRun) \ {<<>>}}

C26_RunsLeanLeft ==
    Done => \A c \in ChainOfRuns : input = c[1] => result = c[2]

C26_ConcatIsBinary ==
    /\ [][C26_OperandStep /\ C26_RegionStep]_vars
    /\ []((Done /\ result.kind = "Ok") => ConcatsAreBinary(result.val))
    /\ []C26_RunsLeanLeft

C26_Witness ==
    /\ Done
    /\ input = Interpolate(RunOf(<<<<"a">>, <<"$", "{", "b", "}">>, kwRequest>>))
    /\ result = Ok(Concat(<<Concat(<<Literal(<<"a">>), Literal(<<"b">>)>>),
                            Request>>))

\* C27 as stated: `}`, `)`, `]`, space and newline are no-ops for the driver
\* in either mode, so a stray `}`, `)` or `]` adds no node to the AST.
C27_PassedOverStep ==
    (Running /\ Acquire(Top(conf)).some
       /\ Acquire(Top(conf)).tok.kind \in PassedOver)
      => LET n == Len(stack)
         IN  /\ Len(stack') = n
             /\ stack'[n] = [stack[n] EXCEPT !.idx = Acquire(stack[n]).idx]
             /\ SubSeq(stack', 1, n - 1) = SubSeq(stack, 1, n - 1)
             /\ result' = result

RECURSIVE Literals(_)
Literals(e) ==
    CASE e[1] = "Literal" -> {e[2]}
      [] e[1] \in {"Request", "WorkerResponse"} -> {}
      [] IsSelection(e) -> Literals(e[2])
      [] e[1] = "Concat" -> UNION {Literals(e[2][i]) : i \in 1..Len(e[2])}
      [] OTHER -> UNION {Literals(e[i]) : i \in 2..Len(e)}

C27_NoNodeOfCloser ==
    (Done /\ result.kind = "Ok")
      => Literals(result.val) \cap (Closers \cup {<<"}">>}) = {}

C27_LiteralReads ==
    (Running /\ Top(conf).ctx = "Literal" /\ Acquire(Top(conf)).some)
      => Acquire(Top(conf)).tok.kind
           \in {"RawString", "InterpolationStart", "ClosedCurlyBrace"}

OutcomeOfStrayInCode ==
    {<<Interpolate(x \o c \o y), Parse(Interpolate(x \o sp \o y))>> :
        x \in CloserLefts, c \in Closers, y \in CloserRights}

RECURSIVE JoinAll(_, _)
JoinAll(p, es) ==
    IF es = <<>> THEN p ELSE JoinAll(ContinueBuild(p, Head(es)), Tail(es))

TextExprs(x) ==
    CASE x = <<>> -> <<>>
      [] x = <<"$", "{", "b", "}">> -> <<Literal(<<"b">>)>>
      [] OTHER -> <<Literal(x)>>

OutcomeOfStrayInText ==
    {<<x \o c \o y,
       LET p == JoinAll(Empty, TextExprs(x)
                                 \o (IF c = <<"}">> THEN <<>> ELSE <<Literal(c)>>)
                                 \o TextExprs(y))
       IN  IF p.kind = "Complete" THEN Ok(p.args[1]) ELSE FailedExpression>> :
        x \in {<<>>, <<"a">>}, c \in Closers \cup {<<"}">>},
        y \in {<<>>, <<"b">>, <<"$", "{", "b", "}">>}}

C27_OutcomeOfStray ==
    Done =>
      \A c \in OutcomeOfStrayInCode \cup OutcomeOfStrayInText :
         input = c[1] => result = c[2]

ChainOperandExpr(x) ==
    CASE x = kwRequest -> Request
      [] x = <<"(", "a", ">", "1", ")">> ->
           Binary("GreaterThan", Literal(<<"a">>), Literal(<<"1">>))
      [] OTHER -> Literal(x)

RECURSIVE LeftNested(_, _, _)
LeftNested(acc, xs, ops) ==
    IF ops = <<>> THEN acc
    ELSE LeftNested(Binary(CtorOf(Head(ops)), acc, ChainOperandExpr(Head(xs))),
                    Tail(xs), Tail(ops))

ResultOfChained ==
    {<<Interpolate(ChainedText(c.xs, c.ops, c.gap)),
       Ok(LeftNested(ChainOperandExpr(Head(c.xs)), Tail(c.xs), c.ops))>> :
        c \in ChainedCases}

C28_ChainNestsLeft ==
    Done => \A c \in ResultOfChained : input = c[1] => result = c[2]

\* A comparison token read when the state is a finished comparison takes the
\* whole of it as its left side.
C28_SecondOperatorStep ==
    \A k \in ComparisonCtors :
       (/\ Reads(k)
        /\ Top(conf).prev.kind = "Complete"
        /\ Top(conf).prev.args[1][1] \in ComparisonCtors)
         => /\ Len(stack') = Len(stack)
            /\ stack'[Len(stack)].prev =
                 InComplete(k, k, <<Top(conf).prev.args[1]>>)

C28_ChainedComparisonNestsLeft ==
    /\ [][C28_SecondOperatorStep]_vars
    /\ []C28_ChainNestsLeft

C28_Witness ==
    /\ Done
    /\ input = Interpolate(<<"a", ">", "1", "<", "=", "a">>)
    /\ result = Ok(Binary("LessThanOrEqualTo",
                          Binary("GreaterThan", Literal(<<"a">>), Literal(<<"1">>)),
                          Literal(<<"a">>)))

\* C29: the mode is Literal at the top level only: every step of go keeps
\* the mode of its activation, every parse of a captured region starts in
\* Code from Empty, and a `${..}` inside code is parsed in code.
C29_TopLevelOnly ==
    \A i \in 1..Len(stack) : stack[i].ctx = IF i = 1 THEN "Literal" ELSE "Code"

C29_ModeStep ==
    /\ \A i \in 1..Len(stack) : i <= Len(stack') => stack'[i].ctx = stack[i].ctx
    /\ Len(stack') <= Len(stack) + 1
    /\ Len(stack') = Len(stack) + 1
         => /\ stack'[Len(stack')].ctx = "Code"
            /\ stack'[Len(stack')].prev = Empty
            /\ stack'[Len(stack')].idx = 0
            /\ \E k \in {"InterpolationStart", "OpenParen", "If", "Then", "Else"} :
                  Reads(k)

\* What the literal mode would make of the same text is a chain of Literals.
ResultOfNestedRegions ==
    {<<Interpolate(<<"$", "{">> \o kwRequest \o <<".", "p", "}">>),
       Ok(SelectField(Request, <<"p">>))>>,
     <<Interpolate(<<"a", " ", "$", "{">> \o kwRequest \o <<".", "p", "}">>),
       Ok(Concat(<<Literal(<<"a">>), SelectField(Request, <<"p">>)>>))>>,
     <<Interpolate(IfThenElse(<<"$", "{">> \o kwRequest \o <<".", "p", "}">>,
                              <<"$", "{", "x", "}">>, <<"0">>)),
       Ok(Cond(SelectField(Request, <<"p">>), Literal(<<"x">>),
               Literal(<<"0">>)))>>,
     <<Interpolate(<<"$", "{", "x", "}", ">", "$", "{">> \o kwRequest
                     \o <<".", "p", "}">>),
       Ok(Binary("GreaterThan", Literal(<<"x">>),
                 SelectField(Request, <<"p">>)))>>}

C29_NestedRegionInCode ==
    Done => \A c \in ResultOfNestedRegions : input = c[1] => result = c[2]

C29_LiteralOnlyAtTopLevel ==
    /\ [][C29_ModeStep]_vars
    /\ [](C29_TopLevelOnly /\ C29_NestedRegionInCode)

\* The region inside the region of ${${request.p}} is being parsed, in code,
\* and has read its dot.
C29_Witness ==
    /\ Len(stack) = 3
    /\ input = Interpolate(<<"$", "{">> \o kwRequest \o <<".", "p", "}">>)
    /\ stack[1].ctx = "Literal"
    /\ stack[2].ctx = "Code"
    /\ stack[3].ctx = "Code"
    /\ stack[3].prev = Complete(SelectField(Request, <<"p">>))

\* C30: GrpcClient::call invokes the user function again only after an
\* attempt failed with Unavailable and the retry state allowed another one;
\* the cached connection was cleared before that, so the retry runs on a
\* connection made after the failure.  Ok and every other error end the call
\* at once with that value, and another error leaves the cache alone.
Enters(p, pc) == ~At(p, pc) /\ calls'[p].pc = pc

\* The loop goes round again only from failed_attempt, after Unavailable.
C30_RetryStep ==
    \A p \in Callers :
       Enters(p, "get")
         => \/ At(p, "idle")
            \/ /\ At(p, "backoff")
               /\ RequiresReconnect(calls[p].outcome)
               /\ calls[p].attempts \in 1..(MaxAttempts - 1)

\* failed_attempt is asked only after the take, which follows Unavailable.
C30_ClearedStep ==
    \A p \in Callers :
       /\ Enters(p, "backoff") => At(p, "take") /\ client' = NoConnection
       /\ Enters(p, "take")
            => /\ At(p, "invoke")
               /\ calls'[p].outcome = Status("Unavailable")
               /\ client' = client

\* The user function runs on what get returned; on a retry that is a
\* connection made after the one that failed.
C30_InvokeStep ==
    \A p \in Callers :
       Enters(p, "invoke")
         => /\ At(p, "get")
            /\ calls'[p].entry = client'
            /\ client' # NoConnection
            /\ calls'[p].attempts = calls[p].attempts + 1
            /\ calls[p].attempts >= 1
                 => /\ calls[p].entry # NoConnection
                    /\ calls'[p].entry > calls[p].entry

\* Ok, and an error that is not Unavailable, end the call with that value.
C30_EndStep ==
    \A p \in Callers :
       /\ (At(p, "invoke") /\ calls'[p] # calls[p]
             /\ ~RequiresReconnect(calls'[p].outcome))
            => /\ calls'[p].pc = "done"
               /\ calls'[p].ret = calls'[p].outcome
               /\ calls'[p].outcome.kind \in {"Ok", "Err"}
               /\ client' = client
       /\ At(p, "done") => calls'[p] = calls[p]
       /\ Enters(p, "done")
            => \/ At(p, "invoke") /\ ~RequiresReconnect(calls'[p].outcome)
               \/ /\ At(p, "backoff")
                  /\ calls'[p].ret = Status("Unavailable")
               \/ At(p, "get") /\ calls'[p].ret = Status("Unknown")

C30_RetryOnlyAfterUnavailable ==
    [][C30_RetryStep /\ C30_ClearedStep /\ C30_InvokeStep /\ C30_EndStep]_vars

\* A second attempt is running on the connection made after the first one
\* failed with Unavailable and was taken out of the cache.
C30_Witness ==
    \E p \in Callers :
       /\ At(p, "invoke")
       /\ calls[p].attempts = 2
       /\ calls[p].outcome = Status("Unavailable")
       /\ calls[p].entry = 2
       /\ client = 2

\* C31: with concurrent calls on clones of one GrpcClient, a connection leaves
\* the cache only through the call whose own attempt on that very connection
\* failed with Unavailable; a connection another call made after the failed
\* one was cleared is never discarded by the failing call.
C31_TakeStep ==
    \A p \in Callers :
       (At(p, "take") /\ calls'[p].pc = "backoff" /\ client # NoConnection)
         => /\ calls[p].outcome = Status("Unavailable")
            /\ client = calls[p].entry

\* The cache is emptied by nothing but the take of a failed call.
C31_CacheStep ==
    (client # NoConnection /\ client' # client)
      => \E p \in Callers : At(p, "take") /\ calls'[p].pc = "backoff"

C31_OnlyOwnConnectionDiscarded == [][C31_TakeStep /\ C31_CacheStep]_vars

\* Connection 1 failed for both calls; q cleared it and is trying again on
\* connection 2, which it made; p, whose attempt was on connection 1, has just
\* taken connection 2 out of the cache.
C31_Witness ==
    \E p, q \in Callers :
       /\ At(p, "backoff")
       /\ calls[p].entry = 1
       /\ calls[p].attempts = 1
       /\ At(q, "invoke")
       /\ calls[q].entry = 2
       /\ connections = 2
       /\ client = NoConnection

\* C32: MultiTargetGrpcClient::call on one endpoint follows the retry
\* protocol of GrpcClient::call: with the same results of the user function
\* and the same retry configuration both make the same number of attempts,
\* keep the same retry state at each attempt and return the same result; and
\* removing the failed endpoint's connection leaves the connections cached
\* for the other endpoints as they are.

\* The calls on the endpoint the GrpcClient is for.
OnEndpoint == {m \in Callers : multi[m].pc # "idle" /\ multi[m].endpoint = endpoint}

\* The retry state has started as many attempts as the loop has begun rounds,
\* as start_attempt at line 55 keeps it in GrpcClient::call.
C32_SameBookkeeping ==
    \A m \in OnEndpoint :
       /\ multi[m].retries.attempts = multi[m].tries
       /\ multi[m].tries = calls[single].attempts
            => multi[m].retries = [attempts |-> calls[single].attempts]

\* Both calls over, they made as many attempts and returned the same.
C32_SameResult ==
    \A m \in OnEndpoint :
       (MultiAt(m, "done") /\ At(single, "done"))
         => /\ multi[m].tries = calls[single].attempts
            /\ multi[m].ret = calls[single].ret

\* The remove touches the failed endpoint's entry only.
C32_RemoveStep ==
    \A m \in Callers :
       (MultiAt(m, "remove") /\ multi'[m].pc = "backoff")
         => /\ clients'[multi[m].endpoint] = NoConnection
            /\ \A e \in Endpoints \ {multi[m].endpoint} : clients'[e] = clients[e]

C32_OtherEndpointsKept == [][C32_RemoveStep]_vars

C32_SameProtocol ==
    [][C32_RemoveStep]_vars /\ [](C32_SameBookkeeping /\ C32_SameResult)

\* f fails with Unavailable once and then succeeds, and the configuration
\* allows no second attempt once one was started: the GrpcClient call has
\* returned the error after one attempt, the multi-target call, whose retry
\* state never started an attempt, has gone round again and returned Ok.
C32_Witness ==
    \E m \in Callers :
       /\ At(single, "done")
       /\ calls[single].attempts = 1
       /\ calls[single].ret = Status("Unavailable")
       /\ MultiAt(m, "done")
       /\ multi[m].endpoint = endpoint
       /\ multi[m].tries = 2
       /\ multi[m].retries = NewRetryState
       /\ multi[m].ret = Ok("r1")
       /\ retryConfig[0] /\ ~retryConfig[1]

\* C33: in app the migration of the configured backend has succeeded before
\* the services are constructed, and the services are constructed before any
\* of the three servers is spawned; if the migration or the construction
\* fails, app returns an error and no server is ever started.  Once the
\* servers are started, app returns as soon as any one of them ends.
Spawned(s) == app.servers[s] # "none"

C33_Order ==
    /\ app.services => app.migrated = app.db
    /\ \A s \in Servers : Spawned(s) => app.services
    /\ AppAt("select") => \A s \in Servers : Spawned(s)
    /\ app.ret.kind = "Err" => \A s \in Servers : ~Spawned(s)
    /\ app.ret.kind # "None" <=> AppAt("returned")

\* The services are constructed, and a server is spawned, only by the step
\* that follows what must have gone before.
C33_OrderStep ==
    /\ (app'.migrated # app.migrated)
         => AppAt("migrate") /\ app'.migrated = app.db /\ ~app.services
    /\ (app'.services # app.services)
         => AppAt("services") /\ app.migrated = app.db
    /\ \A s \in Servers :
          (Spawned(s)' /\ ~Spawned(s))
            => /\ AppAt(s)
               /\ app.services
               /\ app.migrated = app.db

\* A failed migration or construction returns an error, and after an error
\* nothing happens any more.
C33_FailureStep ==
    /\ (AppAt("migrate") /\ app' # app /\ app'.migrated = "none")
         => app'.pc = "returned" /\ app'.ret = IoError("Init error")
    /\ (AppAt("services") /\ app' # app /\ ~app'.services)
         => app'.pc = "returned" /\ app'.ret.kind = "Err"
    /\ (AppAt("returned") /\ app.ret.kind = "Err") => app' = app

\* app leaves the select only by returning Ok, and only when a server ended.
C33_SelectStep ==
    (AppAt("select") /\ app'.pc # "select")
      => /\ \E s \in Servers : Ended(s)
         /\ app'.pc = "returned"
         /\ app'.ret = AppOk
         /\ app'.servers = app.servers

\* With a server ended, app's one possible step is the return.
C33_ReturnsWhenOneEnds ==
    (AppAt("select") /\ \E s \in Servers : Ended(s)) ~> AppAt("returned")

C33_StartUpOrder ==
    /\ [][C33_OrderStep /\ C33_FailureStep /\ C33_SelectStep]_vars
    /\ []C33_Order
    /\ C33_ReturnsWhenOneEnds

\* app has returned Ok after the gRPC server panicked, the other two servers
\* still running, the Sqlite migration and the services done before them.
C33_Witness ==
    /\ AppAt("returned")
    /\ app.ret = AppOk
    /\ app.db = "Sqlite"
    /\ app.migrated = "Sqlite"
    /\ app.services
    /\ app.servers["grpc_server"] = "panicked"
    /\ app.servers["worker_server"] = "running"
    /\ app.servers["custom_request_server"] = "running"

=============================================================================
